---- MODULE Spec2Model ----
(***************************************************************************)
(* A model of the workflow orchestration engine of APE-Core                *)
(* (src/src/agents/orchestrator.py): the agent registry, the workflow      *)
(* registry, the step executor with parameter templating and conditions,   *)
(* the condition evaluator and the LLM-assisted workflow planner.          *)
(*                                                                         *)
(* Python values are modelled as tagged records [t |-> tag, v |-> payload].*)
(* A Python str is a sequence of tokens (a token is a run of characters    *)
(* the program never looks inside), so that startswith, endswith, slicing, *)
(* split, find, rfind and concatenation are computed, not assumed.  A dict *)
(* is a function from strs to values, a list is a sequence of values.      *)
(***************************************************************************)
EXTENDS FiniteSets, Integers, Sequences, TLC

-----------------------------------------------------------------------------
(* Python values *)

T(s) == <<s>>

EmptyMap == [k \in {} |-> 0]

None == [t |-> "null", v |-> 0]
I(n) == [t |-> "int", v |-> n]
B(b) == [t |-> "bool", v |-> b]
S(s) == [t |-> "str", v |-> s]
D(f) == [t |-> "dict", v |-> f]
L(q) == [t |-> "list", v |-> q]

IsDict(x) == x.t = "dict"
IsStr(x) == x.t = "str"
IsList(x) == x.t = "list"
IsNum(x) == x.t \in {"int", "bool"}

\* bool is a subclass of int: True == 1 and False == 0
Num(x) == IF x.t = "bool" THEN (IF x.v THEN 1 ELSE 0) ELSE x.v

\* a == b
PyEq(a, b) == IF IsNum(a) /\ IsNum(b) THEN Num(a) = Num(b) ELSE a = b

\* bool(x)
Truthy(x) ==
    CASE x.t = "null" -> FALSE
      [] x.t = "bool" -> x.v
      [] x.t = "int" -> x.v # 0
      [] x.t = "str" -> x.v # <<>>
      [] x.t = "list" -> x.v # <<>>
      [] x.t = "dict" -> DOMAIN x.v # {}
      [] OTHER -> TRUE

\* key in d, for a dict d
HasKey(d, k) == k \in DOMAIN d.v

\* d.get(k, default), for a dict d
Get(d, k, default) == IF HasKey(d, k) THEN d.v[k] ELSE default

\* d[k] = x on a function
Put(f, k, x) == [j \in DOMAIN f \cup {k} |-> IF j = k THEN x ELSE f[j]]

\* del d[k] on a function
Del(f, k) == [j \in DOMAIN f \ {k} |-> f[j]]

\* s.split(sep) for a one-token separator: the parts between the separators
RECURSIVE Split(_, _)
Split(s, sep) ==
    IF \A i \in 1..Len(s) : s[i] # sep
    THEN <<s>>
    ELSE LET p == CHOOSE i \in 1..Len(s) :
                      s[i] = sep /\ \A j \in 1..(i - 1) : s[j] # sep
         IN  <<SubSeq(s, 1, p - 1)>> \o Split(SubSeq(s, p + 1, Len(s)), sep)

\* s.find(tok): index of the first occurrence (from 1), 0 for Python's -1
Find(s, tok) ==
    IF \E i \in 1..Len(s) : s[i] = tok
    THEN CHOOSE i \in 1..Len(s) : s[i] = tok /\ \A j \in 1..(i - 1) : s[j] # tok
    ELSE 0

\* s.rfind(tok): index of the last occurrence (from 1), 0 for Python's -1
RFind(s, tok) ==
    IF \E i \in 1..Len(s) : s[i] = tok
    THEN CHOOSE i \in 1..Len(s) : s[i] = tok /\ \A j \in (i + 1)..Len(s) : s[j] # tok
    ELSE 0

-----------------------------------------------------------------------------
(* Dotted paths and the condition evaluator *)

StartsWith(s, prefix) ==
    Len(s) >= Len(prefix) /\ SubSeq(s, 1, Len(prefix)) = prefix

EndsWith(s, suffix) ==
    Len(s) >= Len(suffix) /\ SubSeq(s, Len(s) - Len(suffix) + 1, Len(s)) = suffix

\* s[n:]
DropFirst(s, n) == SubSeq(s, n + 1, Len(s))

\* sub in s, for two strs
IsSubstring(sub, s) ==
    \E i \in 0..(Len(s) - Len(sub)) : SubSeq(s, i + 1, i + Len(sub)) = sub

\* the loop "for part in parts: if isinstance(current, dict) and part in
\* current: current = current[part]  else: not found"
RECURSIVE Walk(_, _)
Walk(current, parts) ==
    IF parts = <<>>
    THEN [found |-> TRUE, value |-> current]
    ELSE IF IsDict(current) /\ Head(parts) \in DOMAIN current.v
         THEN Walk(current.v[Head(parts)], Tail(parts))
         ELSE [found |-> FALSE, value |-> None]

\* what a Python call gives back: a returned value or a raised exception
Returned(x) == [raised |-> FALSE, value |-> x]
RaisedWith(msg) == [raised |-> TRUE, value |-> S(msg)]
Raised == RaisedWith(T("<exception>"))

\* the strs of the model that "<" may compare, in Python's order
StrOrder == <<T("T1"), T("ell"), T("hello"), T("value")>>
StrRank(s) == CHOOSE i \in 1..Len(StrOrder) : StrOrder[i] = s

\* a < b: numbers by value, strs by order, anything else is a TypeError
PyLess(a, b) ==
    IF IsNum(a) /\ IsNum(b) THEN Returned(B(Num(a) < Num(b)))
    ELSE IF IsStr(a) /\ IsStr(b) THEN Returned(B(StrRank(a.v) < StrRank(b.v)))
    ELSE Raised

\* the operator "contains" (the three isinstance branches, else fall through)
Contains(actual, expected) ==
    IF IsStr(actual) /\ IsStr(expected)
    THEN Returned(B(IsSubstring(expected.v, actual.v)))
    ELSE IF IsList(actual)
    THEN Returned(B(\E i \in 1..Len(actual.v) : PyEq(actual.v[i], expected)))
    ELSE IF IsDict(actual)
    THEN IF expected.t \in {"dict", "list"}
         THEN Raised  \* unhashable
         ELSE Returned(B(IsStr(expected) /\ expected.v \in DOMAIN actual.v))
    ELSE Returned(B(FALSE))

\* Compare with gt and lt taken as >= and <=
CompareInclusive(operator, actual, expected) ==
    CASE PyEq(operator, S(T("eq"))) -> Returned(B(PyEq(actual, expected)))
      [] PyEq(operator, S(T("ne"))) -> Returned(B(~PyEq(actual, expected)))
      [] PyEq(operator, S(T("gt"))) ->
            LET r == PyLess(actual, expected)
            IN  IF r.raised THEN r ELSE Returned(B(~r.value.v))
      [] PyEq(operator, S(T("lt"))) ->
            LET r == PyLess(expected, actual)
            IN  IF r.raised THEN r ELSE Returned(B(~r.value.v))
      [] PyEq(operator, S(T("contains"))) -> Contains(actual, expected)
      [] PyEq(operator, S(T("exists"))) -> Returned(B(actual # None))
      [] OTHER -> Returned(B(FALSE))

\* Compare with an operator it does not know taken as eq
CompareUnknownIsEq(operator, actual, expected) ==
    CASE PyEq(operator, S(T("ne"))) -> Returned(B(~PyEq(actual, expected)))
      [] PyEq(operator, S(T("gt"))) -> PyLess(expected, actual)
      [] PyEq(operator, S(T("lt"))) -> PyLess(actual, expected)
      [] PyEq(operator, S(T("contains"))) -> Contains(actual, expected)
      [] PyEq(operator, S(T("exists"))) -> Returned(B(actual # None))
      [] OTHER -> Returned(B(PyEq(actual, expected)))

\* the comparison of a simple condition
Compare(operator, actual, expected) ==
    CASE PyEq(operator, S(T("eq"))) -> Returned(B(PyEq(actual, expected)))
      [] PyEq(operator, S(T("ne"))) -> Returned(B(~PyEq(actual, expected)))
      [] PyEq(operator, S(T("gt"))) -> PyLess(expected, actual)
      [] PyEq(operator, S(T("lt"))) -> PyLess(actual, expected)
      [] PyEq(operator, S(T("contains"))) -> Contains(actual, expected)
      [] PyEq(operator, S(T("exists"))) -> Returned(B(actual # None))
      [] OTHER -> Returned(B(FALSE))

ResultPrefix == <<"result", ".">>
ContextPrefix == <<"context", ".">>

\* SimpleCondition with a missing segment leaving actual = None
SimpleConditionMissingIsNone(condition, context, step_result) ==
    LET value_path == Get(condition, T("value"), S(<<>>))
        expected == Get(condition, T("expected"), None)
        operator == Get(condition, T("operator"), S(T("eq")))
    IN  IF ~IsStr(value_path)
        THEN Raised
        ELSE IF StartsWith(value_path.v, <<"result", ".">>)
        THEN Compare(operator,
                     Walk(step_result, Split(DropFirst(value_path.v, 2), ".")).value,
                     expected)
        ELSE IF StartsWith(value_path.v, <<"context", ".">>)
        THEN Compare(operator,
                     Walk(context, Split(DropFirst(value_path.v, 2), ".")).value,
                     expected)
        ELSE Compare(operator, None, expected)

SimpleCondition(condition, context, step_result) ==
    LET value_path == Get(condition, T("value"), S(<<>>))
        expected == Get(condition, T("expected"), None)
        operator == Get(condition, T("operator"), S(T("eq")))
    IN  IF ~IsStr(value_path)
        THEN Raised  \* no startswith on a value that is not a str
        ELSE IF StartsWith(value_path.v, ResultPrefix)
        THEN LET w == Walk(step_result,
                           Split(DropFirst(value_path.v, Len(ResultPrefix)), "."))
             IN  IF w.found THEN Compare(operator, w.value, expected)
                 ELSE Returned(B(FALSE))
        ELSE IF StartsWith(value_path.v, ContextPrefix)
        THEN LET w == Walk(context,
                           Split(DropFirst(value_path.v, Len(ContextPrefix)), "."))
             IN  IF w.found THEN Compare(operator, w.value, expected)
                 ELSE Returned(B(FALSE))
        ELSE Compare(operator, None, expected)

\* the custom conditions with has_data true for any data field
CustomConditionDataPresent(condition, step_result) ==
    LET condition_function == Get(condition, T("function"), S(<<>>))
    IN  IF PyEq(condition_function, S(T("all_success")))
        THEN Returned(Get(step_result, T("success"), B(FALSE)))
        ELSE IF PyEq(condition_function, S(T("has_data")))
        THEN Returned(B(HasKey(step_result, T("data"))))
        ELSE Returned(B(FALSE))

CustomCondition(condition, step_result) ==
    LET condition_function == Get(condition, T("function"), S(<<>>))
    IN  IF PyEq(condition_function, S(T("all_success")))
        THEN IF IsDict(step_result)
             THEN Returned(Get(step_result, T("success"), B(FALSE)))
             ELSE Raised  \* no get on a result that is not a dict
        ELSE IF PyEq(condition_function, S(T("has_data")))
        THEN IF ~IsDict(step_result)
             THEN Raised  \* the model's non-dict results do not support "in"
             ELSE IF HasKey(step_result, T("data"))
             THEN Returned(step_result.v[T("data")])
             ELSE Returned(B(FALSE))
        ELSE Returned(B(FALSE))

\* Orchestrator._evaluate_condition
EvaluateCondition(condition, context, step_result) ==
    LET condition_type == Get(condition, T("type"), S(T("simple")))
    IN  IF PyEq(condition_type, S(T("simple")))
        THEN SimpleCondition(condition, context, step_result)
        ELSE IF PyEq(condition_type, S(T("custom")))
        THEN CustomCondition(condition, step_result)
        ELSE Returned(B(FALSE))

-----------------------------------------------------------------------------
(* The step executor's computations *)

\* isinstance(value, str) and value.startswith("${") and value.endswith("}")
IsTemplate(value) ==
    IsStr(value) /\ StartsWith(value.v, <<"${">>) /\ EndsWith(value.v, <<"}">>)

\* value[2:-1]
TemplateKey(value) == SubSeq(value.v, 2, Len(value.v) - 1)

\* the resolution that walks a dotted path before it tries the whole key
ResolveValueWalksFirst(value, workflow_context) ==
    IF ~IsTemplate(value) THEN value
    ELSE LET template_key == TemplateKey(value)
             w == Walk(D(workflow_context), Split(template_key, "."))
         IN  IF (\E i \in 1..Len(template_key) : template_key[i] = ".") /\ w.found
             THEN w.value
             ELSE IF template_key \in DOMAIN workflow_context
             THEN workflow_context[template_key]
             ELSE value

\* what one parameter value is replaced by: the context entry under the
\* whole key, else the end of the dotted walk, else the value itself
ResolveValue(value, workflow_context) ==
    IF ~IsTemplate(value) THEN value
    ELSE LET template_key == TemplateKey(value)
         IN  IF template_key \in DOMAIN workflow_context
             THEN workflow_context[template_key]
             ELSE IF \E i \in 1..Len(template_key) : template_key[i] = "."
             THEN LET w == Walk(D(workflow_context), Split(template_key, "."))
                  IN  IF w.found THEN w.value ELSE value
             ELSE value

\* the loop over params.items(): params[key] is assigned in place
ResolveParams(params, workflow_context) ==
    [key \in DOMAIN params |-> ResolveValue(params[key], workflow_context)]

\* request = {"action": action}; request.update(params)
BuildRequest(action, params) ==
    [key \in {T("action")} \cup DOMAIN params |->
        IF key \in DOMAIN params THEN params[key] ELSE action]

\* the metadata execute_agent attaches (time.time() is left abstract)
Metadata(session_id, agent_name) ==
    D((T("session_id") :> S(session_id)) @@ (T("timestamp") :> S(T("<time>")))
      @@ (T("agent") :> agent_name))

SessionId == T("<session>")

AgentNotFound(agent_name) ==
    D((T("success") :> B(FALSE))
      @@ (T("error") :> S(<<"Agent not found: ">> \o agent_name.v)))

AgentError(agent_name) ==
    D((T("success") :> B(FALSE))
      @@ (T("error") :> S(<<"Error executing agent ">> \o agent_name.v
                            \o <<": ", "<exception>">>))
      @@ (T("_metadata") :> Metadata(SessionId, agent_name)))

\* execute_agent that calls the agent without looking its name up
ExecuteAgentNoLookup(agents, agent_name, behaviour) ==
    IF behaviour.raised
    THEN AgentError(agent_name)
    ELSE IF IsDict(behaviour.value)
    THEN D(Put(behaviour.value.v, T("_metadata"), Metadata(SessionId, agent_name)))
    ELSE behaviour.value

\* execute_agent without its try block: what the agent raises goes on to
\* the caller, which has no step result to read
ExecuteAgentPropagates(agents, agent_name, behaviour) ==
    IF ~(IsStr(agent_name) /\ agent_name.v \in DOMAIN agents)
    THEN AgentNotFound(agent_name)
    ELSE IF behaviour.raised
    THEN None
    ELSE IF IsDict(behaviour.value)
    THEN D(Put(behaviour.value.v, T("_metadata"), Metadata(SessionId, agent_name)))
    ELSE behaviour.value

\* Orchestrator.execute_agent: agents is the registry, behaviour is what
\* agent.process does with the request (returns a value or raises)
ExecuteAgent(agents, agent_name, behaviour) ==
    IF ~(IsStr(agent_name) /\ agent_name.v \in DOMAIN agents)
    THEN AgentNotFound(agent_name)
    ELSE IF behaviour.raised
    THEN AgentError(agent_name)
    ELSE IF IsDict(behaviour.value)
    THEN D(Put(behaviour.value.v, T("_metadata"), Metadata(SessionId, agent_name)))
    ELSE behaviour.value

\* the record with the steps counted from one
StepRecordFromOne(i, agent_name, action, step_result) ==
    [step |-> i + 1, agent |-> agent_name, action |-> action,
     success |-> Get(step_result, T("success"), B(FALSE)),
     result |-> step_result]

\* the record with success true for a result that has no success field
StepRecordSuccessByDefault(i, agent_name, action, step_result) ==
    [step |-> i, agent |-> agent_name, action |-> action,
     success |-> Get(step_result, T("success"), B(TRUE)),
     result |-> step_result]

\* the record appended to results
StepRecord(i, agent_name, action, step_result) ==
    [step |-> i, agent |-> agent_name, action |-> action,
     success |-> Get(step_result, T("success"), B(FALSE)),
     result |-> step_result]

\* the write under output_key made whatever the result reports
UpdateContextAlways(step, step_result, workflow_context) ==
    IF HasKey(step, T("output_key"))
    THEN Put(workflow_context, step.v[T("output_key")].v,
             Get(step_result, T("data"), D(EmptyMap)))
    ELSE workflow_context

\* the write under output_key: only for a step that has one and succeeded
UpdateContext(step, step_result, workflow_context) ==
    IF HasKey(step, T("output_key"))
       /\ Truthy(Get(step_result, T("success"), B(FALSE)))
    THEN Put(workflow_context, step.v[T("output_key")].v,
             Get(step_result, T("data"), D(EmptyMap)))
    ELSE workflow_context

\* step.get("on_failure", "terminate") == "terminate"
Terminates(step) ==
    PyEq(Get(step, T("on_failure"), S(T("terminate"))), S(T("terminate")))

\* the success of the last record standing for all of them
LastSuccess(results) ==
    results = <<>> \/ Truthy(results[Len(results)].success)

\* all(result["success"] for result in results)
AllSuccess(results) == \A k \in 1..Len(results) : Truthy(results[k].success)

\* the end of an iteration that looks at the result and not at the condition
IterationEndOnFailureOnly(step, cond_value, success) ==
    IF ~Truthy(success)
       /\ PyEq(Get(step, T("on_failure"), S(T("terminate"))), S(T("terminate")))
    THEN "break" ELSE "next"

\* the end of an iteration that looks at the result only when the step
\* has no condition
IterationEndElse(step, cond_value, success) ==
    IF HasKey(step, T("condition"))
    THEN (IF ~Truthy(cond_value) /\ Terminates(step) THEN "break" ELSE "next")
    ELSE IF ~Truthy(success) /\ Terminates(step) THEN "break"
    ELSE "next"

\* the end of an iteration that does not look at on_failure
IterationEndIgnoresOnFailure(step, cond_value, success) ==
    IF ~Truthy(cond_value) \/ ~Truthy(success) THEN "break" ELSE "next"

\* how an iteration ends once the record is appended: "break" on a false
\* condition or a failed result of a step that terminates, else "next"
IterationEnd(step, cond_value, success) ==
    IF ~Truthy(cond_value) /\ Terminates(step) THEN "break"
    ELSE IF ~Truthy(success) /\ Terminates(step) THEN "break"
    ELSE "next"

\* an iteration that evaluates the condition before the context is updated
IterationConditionFirst(agents, step, i, workflow_context, behaviour) ==
    LET agent_name == step.v[T("agent")]
        action == step.v[T("action")]
        has_params == HasKey(step, T("parameters"))
        params == IF has_params
                  THEN ResolveParams(step.v[T("parameters")].v, workflow_context)
                  ELSE EmptyMap
        new_step == IF has_params
                    THEN D(Put(step.v, T("parameters"), D(params)))
                    ELSE step
        step_result == ExecuteAgent(agents, agent_name, behaviour)
        base == [step |-> new_step, request |-> BuildRequest(action, params),
                 dispatched |-> IsStr(agent_name) /\ agent_name.v \in DOMAIN agents,
                 appended |-> FALSE, record |-> StepRecord(i, agent_name, action, D(EmptyMap)),
                 context |-> workflow_context, end |-> "error"]
    IN  IF ~IsDict(step_result)
        THEN base
        ELSE LET record == StepRecord(i, agent_name, action, step_result)
                 cond == IF HasKey(step, T("condition"))
                         THEN EvaluateCondition(step.v[T("condition")],
                                                D(workflow_context), step_result)
                         ELSE Returned(B(TRUE))
             IN  [base EXCEPT !.appended = TRUE, !.record = record,
                              !.context = UpdateContext(step, step_result, workflow_context),
                              !.end = IF cond.raised THEN "error"
                                      ELSE IterationEnd(step, cond.value, record.success)]

\* one iteration of the loop over the steps: the parameters written back
\* into the step, the request, the agent's result, the record, the context
\* and how the iteration ends ("next", "break", or "error" for an exception
\* that the try block of execute_workflow catches)
Iteration(agents, step, i, workflow_context, behaviour) ==
    LET agent_name == step.v[T("agent")]
        action == step.v[T("action")]
        has_params == HasKey(step, T("parameters"))
        params == IF has_params
                  THEN ResolveParams(step.v[T("parameters")].v, workflow_context)
                  ELSE EmptyMap
        new_step == IF has_params
                    THEN D(Put(step.v, T("parameters"), D(params)))
                    ELSE step
        request == BuildRequest(action, params)
        dispatched == IsStr(agent_name) /\ agent_name.v \in DOMAIN agents
        step_result == ExecuteAgent(agents, agent_name, behaviour)
        base == [step |-> new_step, request |-> request, dispatched |-> dispatched,
                 appended |-> FALSE, record |-> StepRecord(i, agent_name, action, D(EmptyMap)),
                 context |-> workflow_context, end |-> "error"]
    IN  IF ~IsDict(step_result)
        THEN base  \* step_result.get raises before the record is appended
        ELSE LET record == StepRecord(i, agent_name, action, step_result)
                 context == UpdateContext(step, step_result, workflow_context)
                 cond == IF HasKey(step, T("condition"))
                         THEN EvaluateCondition(step.v[T("condition")], D(context),
                                                step_result)
                         ELSE Returned(B(TRUE))
                 end == IF cond.raised THEN "error"
                        ELSE IterationEnd(step, cond.value, record.success)
             IN  [base EXCEPT !.appended = TRUE, !.record = record,
                              !.context = context, !.end = end]

\* the validation with the name looked up for the first step only
ValidateFirstStep(agents, workflow_steps) ==
    IF workflow_steps = <<>> THEN Returned(B(TRUE))
    ELSE LET step == Head(workflow_steps)
         IN  Returned(B(/\ IsDict(step) /\ HasKey(step, T("agent"))
                        /\ HasKey(step, T("action"))
                        /\ step.v[T("agent")].v \in DOMAIN agents))

\* the validation that checks the fields of the steps and looks no name up
ValidateStepsFieldsOnly(agents, workflow_steps) ==
    Returned(B(\A k \in 1..Len(workflow_steps) :
                  /\ IsDict(workflow_steps[k])
                  /\ HasKey(workflow_steps[k], T("agent"))
                  /\ HasKey(workflow_steps[k], T("action"))))

\* the validation loop of register_workflow: returns True when every step
\* passes, False at the first step that does not, and raises where Python
\* raises a TypeError (a step that does not support "in" or ["agent"])
RECURSIVE ValidateSteps(_, _)
ValidateSteps(agents, workflow_steps) ==
    IF workflow_steps = <<>> THEN Returned(B(TRUE))
    ELSE LET step == Head(workflow_steps)
         IN  CASE IsDict(step) ->
                     IF ~HasKey(step, T("agent")) \/ ~HasKey(step, T("action"))
                     THEN Returned(B(FALSE))
                     ELSE LET agent_name == step.v[T("agent")]
                          IN  IF agent_name.t \in {"dict", "list"}
                              THEN Raised  \* unhashable
                              ELSE IF ~(IsStr(agent_name)
                                        /\ agent_name.v \in DOMAIN agents)
                              THEN Returned(B(FALSE))
                              ELSE ValidateSteps(agents, Tail(workflow_steps))
               [] IsList(step) ->
                     IF \/ ~\E k \in 1..Len(step.v) : step.v[k] = S(T("agent"))
                        \/ ~\E k \in 1..Len(step.v) : step.v[k] = S(T("action"))
                     THEN Returned(B(FALSE))
                     ELSE Raised  \* a list has no ["agent"]
               [] OTHER -> Raised  \* "agent" in 5

-----------------------------------------------------------------------------
(* The planner's extraction *)

\* what the member token between the braces of a JSON object stands for
JsonMembers(tok) ==
    CASE tok = "<a1 step>" ->
            (T("agent") :> S(T("a1"))) @@ (T("action") :> S(T("act")))
      [] tok = "<ghost step>" ->
            (T("agent") :> S(T("ghost"))) @@ (T("action") :> S(T("act")))
      [] tok = "<no agent>" -> (T("action") :> S(T("act")))

MemberTokens == {"<a1 step>", "<ghost step>", "<no agent>"}

ParseFail == [ok |-> FALSE, val |-> None, next |-> 0]

\* json.loads on the tokens from position i: a value is an object (empty or
\* with one member token), an array of values, or the number 5
RECURSIVE ParseValue(_, _)
RECURSIVE ParseElements(_, _, _)
ParseValue(s, i) ==
    IF i > Len(s) THEN ParseFail
    ELSE CASE s[i] = "{" ->
                 IF i + 1 <= Len(s) /\ s[i + 1] = "}"
                 THEN [ok |-> TRUE, val |-> D(EmptyMap), next |-> i + 2]
                 ELSE IF i + 2 <= Len(s) /\ s[i + 1] \in MemberTokens /\ s[i + 2] = "}"
                 THEN [ok |-> TRUE, val |-> D(JsonMembers(s[i + 1])), next |-> i + 3]
                 ELSE ParseFail
           [] s[i] = "[" ->
                 IF i + 1 <= Len(s) /\ s[i + 1] = "]"
                 THEN [ok |-> TRUE, val |-> L(<<>>), next |-> i + 2]
                 ELSE ParseElements(s, i + 1, <<>>)
           [] s[i] = "5" -> [ok |-> TRUE, val |-> I(5), next |-> i + 1]
           [] OTHER -> ParseFail

ParseElements(s, i, acc) ==
    LET e == ParseValue(s, i)
    IN  IF ~e.ok \/ e.next > Len(s) THEN ParseFail
        ELSE IF s[e.next] = "]"
        THEN [ok |-> TRUE, val |-> L(Append(acc, e.val)), next |-> e.next + 1]
        ELSE IF s[e.next] = ","
        THEN ParseElements(s, e.next + 1, Append(acc, e.val))
        ELSE ParseFail

\* json.loads(json_str): the whole str must be one value
JsonLoads(json_str) ==
    LET r == ParseValue(json_str, 1)
    IN  IF r.ok /\ r.next = Len(json_str) + 1 THEN Returned(r.val) ELSE Raised

\* the extraction giving an empty plan where it finds no JSON
ExtractOrEmpty(text) ==
    IF (Find(text, "[") = 0 \/ RFind(text, "]") = 0)
       /\ (Find(text, "{") = 0 \/ RFind(text, "}") = 0)
    THEN Returned(L(<<>>))
    ELSE IF Find(text, "[") = 0 \/ RFind(text, "]") = 0
    THEN LET one == JsonLoads(SubSeq(text, Find(text, "{"), RFind(text, "}")))
         IN  IF one.raised THEN one ELSE Returned(L(<<one.value>>))
    ELSE JsonLoads(SubSeq(text, Find(text, "["), RFind(text, "]")))

\* the extraction going on to the braces when the array does not parse
ExtractJsonFallsBack(text) ==
    LET json_start == Find(text, "[")
        json_end == RFind(text, "]")
        brace_start == Find(text, "{")
        brace_end == RFind(text, "}")
        array == JsonLoads(SubSeq(text, json_start, json_end))
        one == JsonLoads(SubSeq(text, brace_start, brace_end))
    IN  IF json_start # 0 /\ json_end # 0 /\ ~array.raised
        THEN array
        ELSE IF brace_start = 0 \/ brace_end = 0
        THEN RaisedWith(T("No JSON found in response"))
        ELSE IF one.raised THEN one ELSE Returned(L(<<one.value>>))

\* Orchestrator._extract_json_from_text
ExtractJsonFromText(text) ==
    LET json_start == Find(text, "[")
        json_end == RFind(text, "]")
    IN  IF json_start = 0 \/ json_end = 0
        THEN LET brace_start == Find(text, "{")
                 brace_end == RFind(text, "}")
             IN  IF brace_start = 0 \/ brace_end = 0
                 THEN RaisedWith(T("No JSON found in response"))
                 ELSE LET one == JsonLoads(SubSeq(text, brace_start, brace_end))
                      IN  IF one.raised THEN one ELSE Returned(L(<<one.value>>))
        ELSE JsonLoads(SubSeq(text, json_start, json_end))

-----------------------------------------------------------------------------
(* The inputs *)

AgentNames == {T("a1"), T("a2")}
AgentObjs == {"obj1", "obj2"}
WorkflowIds == {T("w1")}
GeneratedIds == {<<"generated-", "u1">>}
ExecuteIds == WorkflowIds \cup GeneratedIds \cup {T("missing-id")}

Str(s) == S(T(s))

Step(agent, action) == (T("agent") :> Str(agent)) @@ (T("action") :> Str(action))

\* {"type": "simple", "value": "result.data.count", "expected": 5, "operator": "gt"}
CountAboveFive ==
    D((T("type") :> Str("simple"))
      @@ (T("value") :> S(<<"result", ".", "data", ".", "count">>))
      @@ (T("expected") :> I(5)) @@ (T("operator") :> Str("gt")))

\* {"issue_key": "${issue.key}", "issue": "${issue}", "project": "APE"}
IssueParams ==
    D((T("issue_key") :> S(<<"${", "issue", ".", "key", "}">>))
      @@ (T("issue") :> S(<<"${", "issue", "}">>))
      @@ (T("project") :> Str("APE")))

\* {"type": "simple", "value": "result.error", "expected": 5, "operator": "gt"}
ErrorAboveFive ==
    D((T("type") :> Str("simple"))
      @@ (T("value") :> S(<<"result", ".", "error">>))
      @@ (T("expected") :> I(5)) @@ (T("operator") :> Str("gt")))

\* {"type": "simple", "value": "result.success", "expected": False, "operator": "eq"}
SuccessIsFalse ==
    D((T("type") :> Str("simple"))
      @@ (T("value") :> S(<<"result", ".", "success">>))
      @@ (T("expected") :> B(FALSE)) @@ (T("operator") :> Str("eq")))

\* {"type": "simple", "value": "context.issue.count", "expected": 5, "operator": "gt"}
IssueCountAboveFive ==
    D((T("type") :> Str("simple"))
      @@ (T("value") :> S(<<"context", ".", "issue", ".", "count">>))
      @@ (T("expected") :> I(5)) @@ (T("operator") :> Str("gt")))

CreateIssue == D(Step("a1", "create_issue") @@ (T("output_key") :> Str("issue")))
CreateIssueContinue == D(CreateIssue.v @@ (T("on_failure") :> Str("continue")))
GetIssue == D(Step("a1", "get_issue") @@ (T("parameters") :> IssueParams))
CountGate == D(Step("a1", "count") @@ (T("condition") :> CountAboveFive))
CountGateContinue == D(CountGate.v @@ (T("on_failure") :> Str("continue")))
Notify == D(Step("a2", "notify"))
ErrorGateContinue ==
    D(Step("a1", "probe") @@ (T("condition") :> ErrorAboveFive)
      @@ (T("on_failure") :> Str("continue")))
FailureGate == D(Step("a1", "check") @@ (T("condition") :> SuccessIsFalse))
\* a step with a template on, and a condition on, what it stores itself
OwnIssueGate ==
    D(Step("a1", "open_issue") @@ (T("output_key") :> Str("issue"))
      @@ (T("parameters") :> D(T("issue_key") :> S(<<"${", "issue", ".", "key", "}">>)))
      @@ (T("condition") :> IssueCountAboveFive))
NoAgentStep == D(T("action") :> Str("act"))
NoActionStep == D(T("agent") :> Str("a1"))
GhostStep == D(Step("ghost", "act"))

\* the step lists that callers register
StepLists ==
    { <<>>,
      <<CreateIssue, GetIssue>>,
      <<CreateIssue, Notify>>,
      <<NoAgentStep, GetIssue>>,
      <<CreateIssue, NoActionStep>>,
      <<GhostStep, CreateIssue>>,
      <<CreateIssue, GhostStep>> }

\* the step lists whose executions are explored in full
ExecStepLists ==
    { <<>>,
      <<CreateIssueContinue, GetIssue>>,
      <<CountGate, GetIssue>>,
      <<CountGateContinue, Notify>>,
      <<Notify, CreateIssue>>,
      <<ErrorGateContinue, Notify>>,
      <<FailureGate, Notify>>,
      <<OwnIssueGate, Notify>>,
      <<CountGateContinue, CreateIssueContinue, CreateIssueContinue>> }

\* what an agent's process does with a request
IssueData(key, count) == D((T("key") :> Str(key)) @@ (T("count") :> count))

Succeeds(data) == Returned(D((T("success") :> B(TRUE)) @@ (T("data") :> data)))
Fails == Returned(D((T("success") :> B(FALSE)) @@ (T("error") :> Str("boom"))))

Behaviours == {Succeeds(IssueData("T1", I(6))), Fails}

ExecBehaviours ==
    { Succeeds(IssueData("T1", I(6))),
      Succeeds(IssueData("T2", I(4))),
      Succeeds(IssueData("T3", None)),
      Returned(D(T("success") :> B(TRUE))),
      Fails,
      Returned(D(T("data") :> IssueData("T1", I(6)))),
      Returned(None),
      Raised }

\* the (input_data, context) pairs execute_workflow is called with
Invocation(input_data, context) == [input_data |-> input_data, context |-> context]

Invocations == {Invocation(None, EmptyMap)}

ExecInvocations ==
    { Invocation(None, EmptyMap),
      Invocation(D(T("key") :> Str("IN")), EmptyMap),
      Invocation(None, T("issue") :> D(T("key") :> Str("C0"))),
      \* an input that is an empty map
      Invocation(D(EmptyMap), T("project") :> Str("APE")),
      \* {"issue.key": "DIRECT", "issue": {"key": "C0"}}
      Invocation(None, (<<"issue", ".", "key">> :> Str("DIRECT"))
                       @@ (T("issue") :> D(T("key") :> Str("C0")))) }

\* the conditions, contexts and step results _evaluate_condition is called with
ValuePaths ==
    { <<"result", ".", "data", ".", "count">>,
      <<"result", ".", "data", ".", "key", ".", "id">>,
      <<"result", ".", "success">>,
      <<"result", ".">>,
      <<"context", ".", "count">>,
      <<"context", ".", "text">>,
      <<"context", ".", "nested", ".", "key">>,
      <<"context", ".", "nothing">>,
      <<"context", ".", "text", ".", "length">> }

Operators == {"eq", "ne", "gt", "lt", "contains", "exists"}

ExpectedValues == {None, I(5), I(10), B(TRUE), Str("ell"), Str("value")}

SimpleConditions ==
    { D((T("type") :> Str("simple")) @@ (T("value") :> S(path))
        @@ (T("expected") :> expected) @@ (T("operator") :> Str(operator)))
      : path \in ValuePaths, expected \in ExpectedValues, operator \in Operators }

\* conditions of an unknown type, with an unknown operator or function, and
\* the custom conditions
OtherConditions ==
    { D((T("type") :> Str("fancy")) @@ (T("value") :> S(path))
        @@ (T("expected") :> I(10)) @@ (T("operator") :> Str("eq")))
      : path \in {<<"result", ".", "data", ".", "count">>, <<"context", ".", "nothing">>} }
    \cup
    { D((T("type") :> Str("fancy")) @@ (T("function") :> Str("all_success"))) }
    \cup
    { D((T("type") :> Str("simple")) @@ (T("value") :> S(path))
        @@ (T("expected") :> expected) @@ (T("operator") :> Str("ge")))
      : path \in ValuePaths, expected \in {None, I(10), Str("hello")} }
    \cup
    { D((T("value") :> S(<<"result", ".", "data", ".", "count">>))
        @@ (T("expected") :> I(10)) @@ (T("operator") :> Str("ge"))) }
    \cup
    { D((T("type") :> Str("custom")) @@ (T("function") :> Str(function)))
      : function \in {"all_success", "has_data", "any_success"} }
    \cup
    { D(T("type") :> Str("custom")) }

\* the conditions with operator contains, on strs, lists, maps and others
ContainsConditions ==
    { D((T("type") :> Str("simple")) @@ (T("value") :> S(path))
        @@ (T("expected") :> expected) @@ (T("operator") :> Str("contains")))
      : path \in { <<"result", ".", "data">>, <<"context", ".", "nested">>,
                   <<"context", ".", "tags">>, <<"context", ".", "text">>,
                   <<"context", ".", "count">> },
        expected \in { Str("key"), Str("value"), Str("ell"), I(5), None,
                       L(<<Str("key")>>) } }

\* simple conditions whose value path starts with neither "result." nor
\* "context.", is empty, or is not given
UnrootedConditions ==
    { D((T("type") :> Str("simple")) @@ (T("value") :> S(path))
        @@ (T("expected") :> expected) @@ (T("operator") :> Str(operator)))
      : path \in {<<"count">>, <<>>, <<"data", ".", "count">>},
        expected \in ExpectedValues, operator \in Operators }
    \cup
    { D((T("type") :> Str("simple")) @@ (T("expected") :> expected)
        @@ (T("operator") :> Str(operator)))
      : expected \in ExpectedValues, operator \in Operators }
    \cup
    { D((T("type") :> Str("simple")) @@ (T("value") :> S(<<"count">>))
        @@ (T("operator") :> Str(operator)))
      : operator \in Operators }

Conditions ==
    SimpleConditions \cup OtherConditions \cup ContainsConditions
        \cup UnrootedConditions

CondContexts ==
    { D(EmptyMap),
      D((T("count") :> I(6)) @@ (T("text") :> Str("hello"))
        @@ (T("nested") :> D(T("key") :> Str("value"))) @@ (T("nothing") :> None)
        @@ (T("tags") :> L(<<Str("value"), I(5)>>))),
      D((T("count") :> I(4)) @@ (T("nested") :> D(EmptyMap))) }

CondResults ==
    { D((T("success") :> B(TRUE)) @@ (T("data") :> IssueData("T1", I(10)))),
      D((T("success") :> B(TRUE)) @@ (T("data") :> D(EmptyMap))),
      D((T("success") :> B(FALSE)) @@ (T("error") :> Str("value"))),
      D(T("data") :> IssueData("T1", I(10))),
      D((T("success") :> B(TRUE)) @@ (T("data") :> L(<<>>))),
      D((T("success") :> B(FALSE)) @@ (T("data") :> None)) }

\* the texts the text-generation backend answers with
PlanTexts ==
    { <<"prose">>,
      <<"]", "prose", "[">>,
      <<"}", "{">>,
      <<"[", "{">>,
      <<"[", "]">>,
      <<"[", "5", "]">>,
      <<"[", "{", "<a1 step>", "}", "]">>,
      <<"[", "{", "<a1 step>", "}", ",", "{", "<ghost step>", "}", "]">>,
      <<"[", "{", "<no agent>", "}", "]">>,
      <<"prose", "{", "<a1 step>", "}", "prose">>,
      <<"[", "{", "<a1 step>", "prose", "]">>,
      <<"prose", "[", "{", "<a1 step>", "}", "]", "prose">>,
      <<"[", "5", "]", "prose", "[", "{", "<a1 step>", "}", "]">>,
      <<"[", "prose", "{", "<a1 step>", "}">>,
      <<"[", "prose", "]", "{", "<a1 step>", "}">> }

\* what llm_service.send_request does
LlmBehaviours ==
    {Raised, Returned(D(T("success") :> B(FALSE))),
     Returned(D((T("success") :> B(FALSE)) @@ (T("error") :> Str("boom")))),
     Returned(D((T("success") :> B(TRUE)) @@ (T("data") :> D(EmptyMap))))}
    \cup {Returned(D((T("success") :> B(TRUE))
                     @@ (T("data") :> D(T("message") :> D(T("content") :> S(text))))))
          : text \in PlanTexts}

Queries == {T("query")}
Uuids == {"u1"}
PlanUuids == {"u1", "u2"}

\* the backend's answers the engine as a whole is explored with
EngineLlmBehaviours ==
    { Raised,
      Returned(D((T("success") :> B(FALSE)) @@ (T("error") :> Str("boom")))),
      Returned(D((T("success") :> B(TRUE))
                 @@ (T("data") :> D(T("message") :> D(T("content") :>
                        S(<<"prose", "[", "{", "<a1 step>", "}", "]", "prose">>)))))) }

-----------------------------------------------------------------------------
(* The orchestrator *)

VARIABLES
    registered_agents,  \* self.registered_agents: name -> agent object
    workflows,          \* self.workflows: id -> [steps, metadata]
    registered,         \* history: id -> the steps as they were registered
    pc,                 \* "idle", or where execute_workflow stands
    run,                \* the locals of the execute_workflow call under way
    call,               \* the last engine call: [op, args, ret]
    outcome             \* the map the last execute_workflow or plan_workflow returned

vars == <<registered_agents, workflows, registered, pc, run, call, outcome>>

Call(op, args, ret) == [op |-> op, args |-> args, ret |-> ret]

NoRun == [workflow_id |-> <<>>, i |-> 0, results |-> <<>>, context |-> EmptyMap,
          dispatched |-> <<>>, error |-> FALSE]

\* a returned map: keys are the fields it has, the other fields are fillers
NoOutcome == [raised |-> FALSE, keys |-> {}, success |-> FALSE, error |-> <<>>,
              workflow_id |-> <<>>, results |-> <<>>, context |-> EmptyMap,
              steps |-> <<>>, query |-> <<>>]

Init ==
    /\ registered_agents = EmptyMap
    /\ workflows = EmptyMap
    /\ registered = EmptyMap
    /\ pc = "idle"
    /\ run = NoRun
    /\ call = Call("init", <<>>, TRUE)
    /\ outcome = NoOutcome

\* unregister_agent emptying the registry when the name is there
UnregisterAgentClears(name) ==
    /\ pc = "idle"
    /\ outcome' = NoOutcome
    /\ IF name \notin DOMAIN registered_agents
       THEN /\ call' = Call("unregister_agent", [name |-> name], FALSE)
            /\ UNCHANGED <<registered_agents, workflows, registered, pc, run>>
       ELSE /\ registered_agents' = EmptyMap
            /\ call' = Call("unregister_agent", [name |-> name], TRUE)
            /\ UNCHANGED <<workflows, registered, pc, run>>

\* register_agent without the membership test
RegisterAgentOverwrites(name, agent) ==
    /\ pc = "idle"
    /\ outcome' = NoOutcome
    /\ registered_agents' = Put(registered_agents, name, agent)
    /\ call' = Call("register_agent", [name |-> name, agent |-> agent], TRUE)
    /\ UNCHANGED <<workflows, registered, pc, run>>

RegisterAgent(name, agent) ==
    /\ pc = "idle"
    /\ outcome' = NoOutcome
    /\ IF name \in DOMAIN registered_agents
       THEN /\ call' = Call("register_agent", [name |-> name, agent |-> agent], FALSE)
            /\ UNCHANGED <<registered_agents, workflows, registered, pc, run>>
       ELSE /\ registered_agents' = Put(registered_agents, name, agent)
            /\ call' = Call("register_agent", [name |-> name, agent |-> agent], TRUE)
            /\ UNCHANGED <<workflows, registered, pc, run>>

UnregisterAgent(name) ==
    /\ pc = "idle"
    /\ outcome' = NoOutcome
    /\ IF name \notin DOMAIN registered_agents
       THEN /\ call' = Call("unregister_agent", [name |-> name], FALSE)
            /\ UNCHANGED <<registered_agents, workflows, registered, pc, run>>
       ELSE /\ registered_agents' = Del(registered_agents, name)
            /\ call' = Call("unregister_agent", [name |-> name], TRUE)
            /\ UNCHANGED <<workflows, registered, pc, run>>

\* register_workflow without the validation of the steps
RegisterWorkflowResultUnvalidated(workflow_id, workflow_steps) ==
    Returned(B(workflow_id \notin DOMAIN workflows))

\* register_workflow without the test for an id that is already there
RegisterWorkflowResultAnyId(workflow_id, workflow_steps) ==
    ValidateSteps(registered_agents, workflow_steps)

\* the value register_workflow returns (or the exception it raises)
RegisterWorkflowResult(workflow_id, workflow_steps) ==
    IF workflow_id \in DOMAIN workflows THEN Returned(B(FALSE))
    ELSE ValidateSteps(registered_agents, workflow_steps)

\* an entry stored without the steps it was given
WorkflowEntryNoSteps(workflow_id, workflow_steps, metadata) ==
    [id |-> workflow_id, steps |-> <<>>, metadata |-> metadata]

\* the entry register_workflow stores
WorkflowEntry(workflow_id, workflow_steps, metadata) ==
    [id |-> workflow_id, steps |-> workflow_steps, metadata |-> metadata]

RegisterWorkflow(workflow_id, workflow_steps) ==
    LET r == RegisterWorkflowResult(workflow_id, workflow_steps)
        args == [workflow_id |-> workflow_id, workflow_steps |-> workflow_steps]
    IN  /\ pc = "idle"
        /\ outcome' = NoOutcome
        /\ IF ~r.raised /\ Truthy(r.value)
           THEN /\ workflows' = Put(workflows, workflow_id,
                                    WorkflowEntry(workflow_id, workflow_steps, EmptyMap))
                /\ registered' = Put(registered, workflow_id, workflow_steps)
                /\ call' = Call("register_workflow", args, TRUE)
                /\ UNCHANGED <<registered_agents, pc, run>>
           ELSE /\ call' = Call("register_workflow", args, FALSE)
                /\ UNCHANGED <<registered_agents, workflows, registered, pc, run>>

\* execute_workflow without the lookup: workflows[workflow_id] raises
ExecuteWorkflowStartUnchecked(workflow_id, input_data, context) ==
    LET args == [workflow_id |-> workflow_id, input_data |-> input_data,
                 context |-> context]
    IN  /\ pc = "idle"
        /\ call' = Call("execute_workflow", args, FALSE)
        /\ IF workflow_id \notin DOMAIN workflows
           THEN /\ outcome' = [NoOutcome EXCEPT !.raised = TRUE]
                /\ UNCHANGED <<registered_agents, workflows, registered, pc, run>>
           ELSE /\ run' = [NoRun EXCEPT
                              !.workflow_id = workflow_id,
                              !.context = IF Truthy(input_data)
                                          THEN Put(context, T("input"), input_data)
                                          ELSE context]
                /\ pc' = IF workflows[workflow_id].steps = <<>> THEN "return" ELSE "loop"
                /\ outcome' = NoOutcome
                /\ UNCHANGED <<registered_agents, workflows, registered>>

\* execute_workflow up to the loop: the lookup, the context, the input
ExecuteWorkflowStart(workflow_id, input_data, context) ==
    LET args == [workflow_id |-> workflow_id, input_data |-> input_data,
                 context |-> context]
    IN  /\ pc = "idle"
        /\ IF workflow_id \notin DOMAIN workflows
           THEN /\ outcome' = [NoOutcome EXCEPT
                                  !.keys = {"success", "error"},
                                  !.error = <<"Workflow not found: ">> \o workflow_id]
                /\ call' = Call("execute_workflow", args, FALSE)
                /\ UNCHANGED <<registered_agents, workflows, registered, pc, run>>
           ELSE /\ run' = [NoRun EXCEPT
                              !.workflow_id = workflow_id,
                              !.context = IF Truthy(input_data)
                                          THEN Put(context, T("input"), input_data)
                                          ELSE context]
                /\ pc' = IF workflows[workflow_id].steps = <<>> THEN "return" ELSE "loop"
                /\ call' = Call("execute_workflow", args, FALSE)
                /\ outcome' = NoOutcome
                /\ UNCHANGED <<registered_agents, workflows, registered>>

\* an iteration that unregisters the agent whose process raised
ExecuteWorkflowStepDropsAgent(behaviour) ==
    /\ pc = "loop"
    /\ LET workflow == workflows[run.workflow_id]
           step == workflow.steps[run.i + 1]
           it == Iteration(registered_agents, step, run.i, run.context, behaviour)
       IN  /\ workflows' = [workflows EXCEPT
                               ![run.workflow_id].steps[run.i + 1] = it.step]
           /\ run' = [run EXCEPT
                         !.i = IF it.end = "next" THEN run.i + 1 ELSE run.i,
                         !.results = IF it.appended THEN Append(run.results, it.record)
                                     ELSE run.results,
                         !.context = it.context,
                         !.dispatched = IF it.dispatched
                                        THEN Append(run.dispatched,
                                                    [step |-> run.i, request |-> it.request,
                                                     context |-> run.context,
                                                     response |-> behaviour])
                                        ELSE run.dispatched,
                         !.error = (it.end = "error")]
           /\ pc' = IF it.end = "next" /\ run.i + 1 < Len(workflow.steps)
                    THEN "loop" ELSE "return"
           /\ registered_agents' =
                  IF it.dispatched /\ behaviour.raised
                  THEN Del(registered_agents, step.v[T("agent")].v)
                  ELSE registered_agents
    /\ UNCHANGED <<registered, call, outcome>>

\* an iteration that processes a failed step with on_failure "continue"
\* a second time before it goes on
ExecuteWorkflowStepRetries(behaviour) ==
    /\ pc = "loop"
    /\ LET workflow == workflows[run.workflow_id]
           it == Iteration(registered_agents, workflow.steps[run.i + 1], run.i,
                           run.context, behaviour)
           retry == /\ it.end = "next" /\ it.appended
                    /\ ~Truthy(it.record.success)
                    /\ \A k \in 1..Len(run.results) : run.results[k].step # run.i
       IN  /\ workflows' = [workflows EXCEPT
                               ![run.workflow_id].steps[run.i + 1] = it.step]
           /\ run' = [run EXCEPT
                         !.i = IF it.end = "next" /\ ~retry THEN run.i + 1 ELSE run.i,
                         !.results = IF it.appended THEN Append(run.results, it.record)
                                     ELSE run.results,
                         !.context = it.context,
                         !.dispatched = IF it.dispatched
                                        THEN Append(run.dispatched,
                                                    [step |-> run.i, request |-> it.request,
                                                     context |-> run.context,
                                                     response |-> behaviour])
                                        ELSE run.dispatched,
                         !.error = (it.end = "error")]
           /\ pc' = IF retry \/ (it.end = "next" /\ run.i + 1 < Len(workflow.steps))
                    THEN "loop" ELSE "return"
    /\ UNCHANGED <<registered_agents, registered, call, outcome>>

\* one iteration of the loop of execute_workflow, the agent doing behaviour
ExecuteWorkflowStep(behaviour) ==
    /\ pc = "loop"
    /\ LET workflow == workflows[run.workflow_id]
           it == Iteration(registered_agents, workflow.steps[run.i + 1], run.i,
                           run.context, behaviour)
       IN  /\ workflows' = [workflows EXCEPT
                               ![run.workflow_id].steps[run.i + 1] = it.step]
           /\ run' = [run EXCEPT
                         !.i = IF it.end = "next" THEN run.i + 1 ELSE run.i,
                         !.results = IF it.appended THEN Append(run.results, it.record)
                                     ELSE run.results,
                         !.context = it.context,
                         !.dispatched = IF it.dispatched
                                        THEN Append(run.dispatched,
                                                    [step |-> run.i, request |-> it.request,
                                                     context |-> run.context,
                                                     response |-> behaviour])
                                        ELSE run.dispatched,
                         !.error = (it.end = "error")]
           /\ pc' = IF it.end = "next" /\ run.i + 1 < Len(workflow.steps)
                    THEN "loop" ELSE "return"
    /\ UNCHANGED <<registered_agents, registered, call, outcome>>

\* the returned map with the trace dropped when the run ended in an error
WorkflowOutcomeLosesTrace(r) ==
    IF r.error
    THEN [NoOutcome EXCEPT
             !.keys = {"success", "error", "execution_id", "workflow_id", "results"},
             !.error = <<"Error executing workflow ">> \o r.workflow_id
                       \o <<": ", "<exception>">>,
             !.workflow_id = r.workflow_id]
    ELSE [NoOutcome EXCEPT
             !.keys = {"success", "execution_id", "workflow_id", "results", "context"},
             !.success = AllSuccess(r.results),
             !.workflow_id = r.workflow_id,
             !.results = r.results,
             !.context = r.context]

\* the outcome with the steps that were never run counted as failures
WorkflowOutcomeCountsSkipped(r) ==
    IF r.error
    THEN [NoOutcome EXCEPT
             !.keys = {"success", "error", "execution_id", "workflow_id", "results"},
             !.error = <<"Error executing workflow ">> \o r.workflow_id
                       \o <<": ", "<exception>">>,
             !.workflow_id = r.workflow_id,
             !.results = r.results]
    ELSE [NoOutcome EXCEPT
             !.keys = {"success", "execution_id", "workflow_id", "results", "context"},
             !.success = /\ AllSuccess(r.results)
                         /\ Len(r.results) = Len(workflows[r.workflow_id].steps),
             !.workflow_id = r.workflow_id,
             !.results = r.results,
             !.context = r.context]

\* the map execute_workflow returns after the loop or from its except block
WorkflowOutcome(r) ==
    IF r.error
    THEN [NoOutcome EXCEPT
             !.keys = {"success", "error", "execution_id", "workflow_id", "results"},
             !.error = <<"Error executing workflow ">> \o r.workflow_id
                       \o <<": ", "<exception>">>,
             !.workflow_id = r.workflow_id,
             !.results = r.results]
    ELSE [NoOutcome EXCEPT
             !.keys = {"success", "execution_id", "workflow_id", "results", "context"},
             !.success = AllSuccess(r.results),
             !.workflow_id = r.workflow_id,
             !.results = r.results,
             !.context = r.context]

\* a return that builds the outcome and stays inside the call
ExecuteWorkflowReturnStays ==
    /\ pc = "return"
    /\ outcome' = WorkflowOutcome(run)
    /\ call' = [call EXCEPT !.ret = outcome'.success]
    /\ UNCHANGED <<registered_agents, workflows, registered, pc, run>>

ExecuteWorkflowReturn ==
    /\ pc = "return"
    /\ outcome' = WorkflowOutcome(run)
    /\ call' = [call EXCEPT !.ret = outcome'.success]
    /\ pc' = "idle"
    /\ run' = NoRun
    /\ UNCHANGED <<registered_agents, workflows, registered>>

\* the map plan_workflow returns (raised: the exception leaves plan_workflow)
PlanFailure(prefix, detail) ==
    [NoOutcome EXCEPT !.keys = {"success", "error"}, !.error = prefix \o detail]

PlanRaises == [NoOutcome EXCEPT !.raised = TRUE]

\* a planner that starts the workflow it has just registered
PlanWorkflowAutoRuns(query, llm, uuid) ==
    LET args == [query |-> query, llm |-> llm, uuid |-> uuid]
        content == IF llm.raised THEN None
                   ELSE Walk(llm.value, <<T("data"), T("message"), T("content")>>).value
        workflow_plan == IF IsStr(content) THEN ExtractJsonFromText(content.v) ELSE Raised
        workflow_id == <<"generated-", uuid>>
        planned == /\ ~workflow_plan.raised
                   /\ ~RegisterWorkflowResult(workflow_id, workflow_plan.value.v).raised
                   /\ Truthy(RegisterWorkflowResult(workflow_id,
                                                    workflow_plan.value.v).value)
    IN  /\ pc = "idle"
        /\ planned
        /\ workflows' = Put(workflows, workflow_id,
                            WorkflowEntry(workflow_id, workflow_plan.value.v,
                                          (T("generated") :> B(TRUE))
                                          @@ (T("query") :> S(query))))
        /\ registered' = Put(registered, workflow_id, workflow_plan.value.v)
        /\ outcome' = NoOutcome
        /\ call' = Call("plan_workflow", args, TRUE)
        /\ run' = [NoRun EXCEPT !.workflow_id = workflow_id]
        /\ pc' = IF workflow_plan.value.v = <<>> THEN "return" ELSE "loop"
        /\ UNCHANGED registered_agents

\* Orchestrator.plan_workflow, the backend doing llm and uuid4 giving uuid
PlanWorkflow(query, llm, uuid) ==
    LET args == [query |-> query, llm |-> llm, uuid |-> uuid]
        result == llm.value
        has_content ==
            /\ HasKey(result, T("data")) /\ IsDict(result.v[T("data")])
            /\ HasKey(result.v[T("data")], T("message"))
            /\ IsDict(result.v[T("data")].v[T("message")])
            /\ HasKey(result.v[T("data")].v[T("message")], T("content"))
        response_text == result.v[T("data")].v[T("message")].v[T("content")]
        workflow_plan == ExtractJsonFromText(response_text.v)
        workflow_id == <<"generated-", uuid>>
        reg == RegisterWorkflowResult(workflow_id, workflow_plan.value.v)
        failed(o) == /\ outcome' = o
                     /\ call' = Call("plan_workflow", args, FALSE)
                     /\ UNCHANGED <<registered_agents, workflows, registered, pc, run>>
    IN  /\ pc = "idle"
        /\ IF llm.raised THEN failed(PlanRaises)
           ELSE IF ~Truthy(Get(result, T("success"), B(FALSE)))
           THEN failed(PlanFailure(<<"Failed to plan workflow: ">>,
                                   Get(result, T("error"), Str("Unknown error")).v))
           ELSE IF ~has_content THEN failed(PlanRaises)
           ELSE IF workflow_plan.raised
           THEN failed(PlanFailure(<<"Failed to ", "extract workflow plan", ": ">>,
                                   workflow_plan.value.v))
           ELSE IF reg.raised
           THEN failed(PlanFailure(<<"Failed to ", "extract workflow plan", ": ">>,
                                   reg.value.v))
           ELSE IF ~Truthy(reg.value)
           THEN failed(PlanFailure(<<"Failed to register generated workflow">>, <<>>))
           ELSE /\ workflows' =
                      Put(workflows, workflow_id,
                          WorkflowEntry(workflow_id, workflow_plan.value.v,
                                        (T("generated") :> B(TRUE))
                                        @@ (T("query") :> S(query))))
                /\ registered' = Put(registered, workflow_id, workflow_plan.value.v)
                /\ outcome' = [NoOutcome EXCEPT
                                  !.keys = {"success", "data"},
                                  !.success = TRUE,
                                  !.workflow_id = workflow_id,
                                  !.steps = workflow_plan.value.v,
                                  !.query = query]
                /\ call' = Call("plan_workflow", args, TRUE)
                /\ UNCHANGED <<registered_agents, pc, run>>

\* a direct call of Orchestrator._evaluate_condition, from the call to its
\* return: call.ret is Pending until the evaluator has returned or raised
Pending == [raised |-> FALSE, value |-> S(T("<pending>"))]

EvaluateConditionCall(condition, context, step_result) ==
    /\ pc = "evaluate"
    /\ call = Call("_evaluate_condition",
                   [condition |-> condition, context |-> context,
                    step_result |-> step_result],
                   Pending)

EvaluateConditionReturn ==
    /\ pc = "evaluate"
    /\ call' = [call EXCEPT !.ret = EvaluateCondition(call.args.condition,
                                                      call.args.context,
                                                      call.args.step_result)]
    /\ pc' = "idle"
    /\ UNCHANGED <<registered_agents, workflows, registered, run, outcome>>

Next ==
    \/ \E name \in AgentNames, agent \in AgentObjs : RegisterAgent(name, agent)
    \/ \E name \in AgentNames : UnregisterAgent(name)
    \/ \E workflow_id \in WorkflowIds, workflow_steps \in StepLists :
          RegisterWorkflow(workflow_id, workflow_steps)
    \/ \E workflow_id \in ExecuteIds, inv \in Invocations :
          ExecuteWorkflowStart(workflow_id, inv.input_data, inv.context)
    \/ \E behaviour \in Behaviours : ExecuteWorkflowStep(behaviour)
    \/ ExecuteWorkflowReturn
    \/ \E query \in Queries, llm \in EngineLlmBehaviours, uuid \in Uuids :
          PlanWorkflow(query, llm, uuid)

\* the engine with every operation it has
Spec == Init /\ [][Next]_vars

NextPlan ==
    \/ \E name \in AgentNames : RegisterAgent(name, "obj1")
    \/ \E name \in AgentNames : UnregisterAgent(name)
    \/ \E workflow_id \in WorkflowIds, workflow_steps \in StepLists :
          RegisterWorkflow(workflow_id, workflow_steps)
    \/ \E query \in Queries, llm \in LlmBehaviours, uuid \in PlanUuids :
          PlanWorkflow(query, llm, uuid)

\* the registries and the planner, over every answer of the backend
SpecPlan == Init /\ [][NextPlan]_vars

NextExec ==
    \/ \E name \in AgentNames : RegisterAgent(name, "obj1")
    \/ \E name \in AgentNames : UnregisterAgent(name)
    \/ \E workflow_id \in WorkflowIds, workflow_steps \in ExecStepLists :
          RegisterWorkflow(workflow_id, workflow_steps)
    \/ \E workflow_id \in WorkflowIds, inv \in ExecInvocations :
          ExecuteWorkflowStart(workflow_id, inv.input_data, inv.context)
    \/ \E behaviour \in ExecBehaviours : ExecuteWorkflowStep(behaviour)
    \/ ExecuteWorkflowReturn

\* the engine exploring the executions of its workflows in full
SpecExec == Init /\ [][NextExec]_vars

\* the same engine when every agent call returns or raises: the call under
\* way is synchronous, so its next iteration and its return do happen
SpecExecFair ==
    /\ SpecExec
    /\ WF_vars(\E behaviour \in ExecBehaviours : ExecuteWorkflowStep(behaviour))
    /\ WF_vars(ExecuteWorkflowReturn)

InitCond ==
    /\ registered_agents = EmptyMap
    /\ workflows = EmptyMap
    /\ registered = EmptyMap
    /\ run = NoRun
    /\ outcome = NoOutcome
    /\ \E condition \in Conditions, context \in CondContexts,
          step_result \in CondResults :
           EvaluateConditionCall(condition, context, step_result)

NextCond == EvaluateConditionReturn

\* the condition evaluator on its own, over the conditions of the model
SpecCond == InitCond /\ [][NextCond]_vars

-----------------------------------------------------------------------------
(* What the claims read off a state *)

\* the value at the end of a dotted path through nested maps: <<x>> when
\* every segment is a key of the map reached so far, <<>> otherwise
RECURSIVE Lookup(_, _)
Lookup(root, segments) ==
    IF segments = <<>> THEN <<root>>
    ELSE IF root.t = "dict" /\ Head(segments) \in DOMAIN root.v
    THEN Lookup(root.v[Head(segments)], Tail(segments))
    ELSE <<>>

\* C1: register_agent(name, b) for a name that is already registered
\* returns False and leaves the registry as it was: the same names, and
\* name still mapped to the agent registered first.
C1_DuplicateAgentRejected ==
    [][(call'.op = "register_agent"
        /\ call'.args.name \in DOMAIN registered_agents)
       => /\ call'.ret = FALSE
          /\ DOMAIN registered_agents' = DOMAIN registered_agents
          /\ registered_agents'[call'.args.name] = registered_agents[call'.args.name]
          /\ registered_agents' = registered_agents]_vars

\* C1 witness: a second agent offered under a taken name, after the
\* registry has seen other operations, and the first agent still there
C1_Witness ==
    /\ call.op = "register_agent"
    /\ call.ret = FALSE
    /\ call.args.name \in DOMAIN registered_agents
    /\ registered_agents[call.args.name] # call.args.agent
    /\ Cardinality(DOMAIN registered_agents) = 2

\* the map execute_workflow returns for an id it does not know
NotFound(workflow_id) ==
    [NoOutcome EXCEPT !.keys = {"success", "error"},
                      !.success = FALSE,
                      !.error = <<"Workflow not found: ">> \o workflow_id]

\* C6: execute_workflow(id) for an id that is not registered returns
\* {success: false, error: "Workflow not found: <id>"}, does not raise,
\* dispatches no agent and leaves both registries unchanged.
C6_UnknownWorkflow ==
    [][(pc = "idle" /\ call'.op = "execute_workflow"
        /\ call'.args.workflow_id \notin DOMAIN workflows)
       => /\ outcome' = NotFound(call'.args.workflow_id)
          /\ pc' = "idle"
          /\ run' = NoRun
          /\ registered_agents' = registered_agents
          /\ workflows' = workflows]_vars

\* C6 witness: the call made with agents and a workflow registered
C6_Witness ==
    /\ pc = "idle"
    /\ call.op = "execute_workflow"
    /\ call.args.workflow_id = T("missing-id")
    /\ outcome.error = <<"Workflow not found: ", "missing-id">>
    /\ DOMAIN workflows # {}
    /\ DOMAIN registered_agents # {}

\* the text the backend generated, <<>> when it gave none
GeneratedText(llm) ==
    IF llm.raised THEN <<>>
    ELSE LET content == Lookup(llm.value, <<T("data"), T("message"), T("content")>>)
         IN  IF content # <<>> /\ Lookup(llm.value, <<T("success")>>) = <<B(TRUE)>>
             THEN content ELSE <<>>

\* an opening token that a closing token follows somewhere in the text
HasPair(text, open, close) ==
    \E i, j \in 1..Len(text) : i < j /\ text[i] = open /\ text[j] = close

Mentions(message, phrase) == \E i \in 1..Len(message) : message[i] = phrase

\* C7: when the generated text has neither a '[' ... ']' pair nor a
\* '{' ... '}' pair, plan_workflow returns success false with an error that
\* mentions "extract workflow plan", and the workflow registry is unchanged.
C7_NoJsonInText ==
    [][(call'.op = "plan_workflow"
        /\ GeneratedText(call'.args.llm) # <<>>
        /\ ~HasPair(GeneratedText(call'.args.llm)[1].v, "[", "]")
        /\ ~HasPair(GeneratedText(call'.args.llm)[1].v, "{", "}"))
       => /\ ~outcome'.raised
          /\ outcome'.keys = {"success", "error"}
          /\ outcome'.success = FALSE
          /\ Mentions(outcome'.error, "extract workflow plan")
          /\ workflows' = workflows]_vars

\* C7 witness: a text whose brackets are there but close before they open
C7_Witness ==
    /\ call.op = "plan_workflow"
    /\ GeneratedText(call.args.llm) = <<S(<<"]", "prose", "[">>)>>
    /\ Mentions(outcome.error, "extract workflow plan")
    /\ DOMAIN registered_agents # {}

\* a step that lacks agent or action, or names an agent not in agents
Offending(step, agents) ==
    \/ T("agent") \notin DOMAIN step.v
    \/ T("action") \notin DOMAIN step.v
    \/ step.v[T("agent")].v \notin DOMAIN agents

\* C10: register_workflow returns False and leaves the workflow registry
\* unchanged whenever some step, at any position, lacks agent or action or
\* names an agent that is not registered at the time of the call.
C10_InvalidStepsRejected ==
    [][(call'.op = "register_workflow"
        /\ \E k \in 1..Len(call'.args.workflow_steps) :
               Offending(call'.args.workflow_steps[k], registered_agents))
       => /\ call'.ret = FALSE
          /\ workflows' = workflows]_vars

\* C10 witness: a new id, a valid first step and an offending last step
C10_Witness ==
    /\ call.op = "register_workflow"
    /\ call.ret = FALSE
    /\ call.args.workflow_id \notin DOMAIN workflows
    /\ Len(call.args.workflow_steps) = 2
    /\ ~Offending(call.args.workflow_steps[1], registered_agents)
    /\ Offending(call.args.workflow_steps[2], registered_agents)

\* a direct call of _evaluate_condition has returned or raised
Evaluated == call.op = "_evaluate_condition" /\ pc = "idle"

\* the field of the condition evaluated: <<x>>, or <<>> when it is absent
CondFieldOf(name) == Lookup(call.args.condition, <<T(name)>>)

\* the condition evaluated is a simple one with a value path
SimpleCall ==
    /\ Evaluated
    /\ CondFieldOf("type") \in {<<>>, <<Str("simple")>>}
    /\ CondFieldOf("value") # <<>>
    /\ CondFieldOf("expected") # <<>>
    /\ CondFieldOf("operator") # <<>>

CondField(name) == call.args.condition.v[T(name)]

\* the root a value path names ("result", "context") and its segments
PathRoot ==
    IF Len(CondField("value").v) >= 2 /\ CondField("value").v[2] = "."
    THEN CondField("value").v[1] ELSE ""
PathSegments == Split(DropFirst(CondField("value").v, 2), ".")
PathValue ==
    Lookup(IF PathRoot = "result" THEN call.args.step_result ELSE call.args.context,
           PathSegments)

\* C8: a simple condition whose result. or context. path has a missing
\* segment evaluates to false, for every operator and every expected value,
\* and does not raise.
C8_MissingPathIsFalse ==
    (SimpleCall /\ PathRoot \in {"result", "context"} /\ PathValue = <<>>)
        => call.ret = Returned(B(FALSE))

\* C8 witness: a path through a value that is not a map, under "ne" with an
\* expected value that no absent value equals
C8_Witness ==
    /\ SimpleCall
    /\ CondField("value") = S(<<"context", ".", "text", ".", "length">>)
    /\ Lookup(call.args.context, <<T("text")>>) = <<Str("hello")>>
    /\ CondField("operator") = Str("ne")
    /\ CondField("expected") = I(5)
    /\ call.ret = Returned(B(FALSE))

IsNumber(x) == x.t \in {"int", "bool"}
NumberOf(x) == IF x.t = "bool" THEN (IF x.v THEN 1 ELSE 0) ELSE x.v

\* value equality: numbers by their numeric value, anything else structurally
SameValue(a, e) ==
    IF IsNumber(a) /\ IsNumber(e) THEN NumberOf(a) = NumberOf(e) ELSE a = e

\* C9: when the path of a simple condition resolves to a value a and the
\* expected value is e, eq is true iff a = e, ne iff a # e, gt iff a > e and
\* lt iff a < e for numbers a and e, and exists iff a is not null.
C9_OperatorsCompare ==
    (/\ SimpleCall /\ PathRoot \in {"result", "context"} /\ PathValue # <<>>) =>
        LET a == PathValue[1]
            e == CondField("expected")
            operator == CondField("operator").v[1]
        IN  /\ operator = "eq" => call.ret = Returned(B(SameValue(a, e)))
            /\ operator = "ne" => call.ret = Returned(B(~SameValue(a, e)))
            /\ (operator = "gt" /\ IsNumber(a) /\ IsNumber(e))
                   => call.ret = Returned(B(NumberOf(a) > NumberOf(e)))
            /\ (operator = "lt" /\ IsNumber(a) /\ IsNumber(e))
                   => call.ret = Returned(B(NumberOf(a) < NumberOf(e)))
            /\ operator = "exists" => call.ret = Returned(B(a.t # "null"))

\* C9 witness: "exists" on a key that is present with a null value
C9_Witness ==
    /\ SimpleCall
    /\ CondField("value") = S(<<"context", ".", "nothing">>)
    /\ PathValue = <<None>>
    /\ CondField("operator") = Str("exists")
    /\ call.ret = Returned(B(FALSE))

\* an execute_workflow call on a registered workflow is under way
Executing == pc \in {"loop", "return"}

\* an execute_workflow call on a registered workflow has returned
ExecutionReturned ==
    call.op = "execute_workflow" /\ pc = "idle" /\ "results" \in outcome.keys

\* the logical AND of the success fields of the records
AndOfSuccess(results) == \A k \in 1..Len(results) : results[k].success = B(TRUE)

\* C2 as claimed: the outcome's success equals the AND of the success
\* fields of all records in its results, whatever the agents do.
C2_SuccessIsAndOfResults ==
    ExecutionReturned => outcome.success = AndOfSuccess(outcome.results)

\* C2 as amended: the outcome's success equals the AND of the success fields
\* of its records unless an internal error ended the run; then the outcome
\* carries an error and its success is false whatever the records say.
C2_SuccessIsAndUnlessError ==
    ExecutionReturned =>
        IF "error" \in outcome.keys
        THEN outcome.success = FALSE
        ELSE outcome.success = AndOfSuccess(outcome.results)

\* C2 witness: a run that went past a failed step and ended on a success
C2_Witness ==
    /\ ExecutionReturned
    /\ "error" \notin outcome.keys
    /\ Len(outcome.results) = 2
    /\ outcome.results[1].success = B(FALSE)
    /\ outcome.results[2].success = B(TRUE)
    /\ outcome.success = FALSE

\* step k (from 1) of a workflow, as it was registered
RegisteredStep(workflow_id, k) == registered[workflow_id][k]

TerminatesOnFailure(step) ==
    T("on_failure") \notin DOMAIN step.v \/ step.v[T("on_failure")] = Str("terminate")

\* the step has a condition and it evaluates false (the conditions of the
\* model read the step result, so the context given does not matter)
ConditionFalse(step, context, result) ==
    /\ T("condition") \in DOMAIN step.v
    /\ LET r == EvaluateCondition(step.v[T("condition")], D(context), result)
       IN  ~r.raised /\ r.value = B(FALSE)

\* the records stop at the first step whose false condition terminates
StopsAtFalseCondition(workflow_id, results, context) ==
    \A k \in 1..Len(results) :
        (/\ TerminatesOnFailure(RegisteredStep(workflow_id, k))
         /\ ConditionFalse(RegisteredStep(workflow_id, k), context, results[k].result))
        => /\ Len(results) = k
           /\ \A j \in 1..k : results[j].step = j - 1

\* C3: if step i has a condition that evaluates false and its on_failure is
\* "terminate" or absent, no record of a later step appears in results, no
\* agent is dispatched for a later step, and records 0..i stay.
C3_FalseConditionTerminates ==
    /\ Executing =>
          /\ StopsAtFalseCondition(run.workflow_id, run.results, run.context)
          /\ \A k \in 1..Len(run.results) :
                (/\ TerminatesOnFailure(RegisteredStep(run.workflow_id, k))
                 /\ ConditionFalse(RegisteredStep(run.workflow_id, k), run.context,
                                   run.results[k].result))
                => /\ pc = "return"
                   /\ \A n \in 1..Len(run.dispatched) : run.dispatched[n].step < k
    /\ ExecutionReturned =>
          StopsAtFalseCondition(outcome.workflow_id, outcome.results, outcome.context)

\* C3 witness: a successful first step of two whose condition is false
C3_Witness ==
    /\ ExecutionReturned
    /\ Len(registered[outcome.workflow_id]) = 2
    /\ TerminatesOnFailure(RegisteredStep(outcome.workflow_id, 1))
    /\ Len(outcome.results) = 1
    /\ outcome.results[1].success = B(TRUE)
    /\ ConditionFalse(RegisteredStep(outcome.workflow_id, 1), outcome.context,
                      outcome.results[1].result)

\* a parameter value of the form "${path}", and its path
TemplateLiteral(value) ==
    /\ value.t = "str" /\ Len(value.v) >= 2
    /\ value.v[1] = "${" /\ value.v[Len(value.v)] = "}"

TemplatePath(value) == SubSeq(value.v, 2, Len(value.v) - 1)

\* the parameters a step was registered with
RegisteredParams(workflow_id, k) ==
    IF T("parameters") \in DOMAIN RegisteredStep(workflow_id, k).v
    THEN RegisteredStep(workflow_id, k).v[T("parameters")].v
    ELSE EmptyMap

\* the records, before step i, of the successful steps whose output_key is key
Writers(workflow_id, results, i, key) ==
    {j \in 1..Len(results) :
        /\ j <= i
        /\ results[j].success = B(TRUE)
        /\ T("output_key") \in DOMAIN RegisteredStep(workflow_id, j).v
        /\ RegisteredStep(workflow_id, j).v[T("output_key")] = S(key)}

Latest(indices) == CHOOSE j \in indices : \A m \in indices : m <= j

\* C4 as claimed: when step j with output_key k succeeded with data d, a
\* later step's parameter "${k}" is dispatched as d and "${k.p1...pn}" as
\* the value at p1...pn in d, d being the last successful write to k.
C4_TemplatesCarryStepOutput ==
    Executing =>
        \A n \in 1..Len(run.dispatched) :
            LET sent == run.dispatched[n]
                params == RegisteredParams(run.workflow_id, sent.step + 1)
            IN  \A p \in DOMAIN params :
                    TemplateLiteral(params[p]) =>
                        LET segments == Split(TemplatePath(params[p]), ".")
                            writers == Writers(run.workflow_id, run.results, sent.step,
                                               Head(segments))
                        IN  writers # {} =>
                                LET d == Lookup(run.results[Latest(writers)].result,
                                                <<T("data")>>)
                                IN  (d # <<>> /\ Lookup(d[1], Tail(segments)) # <<>>)
                                    => sent.request[p] = Lookup(d[1], Tail(segments))[1]

\* C5 as claimed: a template parameter whose path is neither a context key
\* nor a walk through nested maps of the context is dispatched as the
\* literal template string, and its step is dispatched all the same.
C5_UnresolvedTemplateStaysLiteral ==
    Executing =>
        /\ \A n \in 1..Len(run.dispatched) :
              LET sent == run.dispatched[n]
                  params == RegisteredParams(run.workflow_id, sent.step + 1)
              IN  \A p \in DOMAIN params :
                      (/\ TemplateLiteral(params[p])
                       /\ TemplatePath(params[p]) \notin DOMAIN sent.context
                       /\ Lookup(D(sent.context),
                                 Split(TemplatePath(params[p]), ".")) = <<>>)
                      => sent.request[p] = params[p]
        /\ \A k \in 1..Len(run.results) :
              run.results[k].agent.v \in DOMAIN registered_agents
              => \E n \in 1..Len(run.dispatched) : run.dispatched[n].step = k - 1

\* C11: register_workflow(id, steps) for an id already in the workflow
\* registry returns False, and the steps and metadata stored under id stay
\* as they were, even when the new steps are valid.
C11_DuplicateWorkflowRejected ==
    [][(call'.op = "register_workflow"
        /\ call'.args.workflow_id \in DOMAIN workflows)
       => /\ call'.ret = FALSE
          /\ workflows'[call'.args.workflow_id].steps
                = workflows[call'.args.workflow_id].steps
          /\ workflows'[call'.args.workflow_id].metadata
                = workflows[call'.args.workflow_id].metadata
          /\ workflows' = workflows]_vars

\* C11 witness: valid steps, other than the stored ones, offered under a
\* taken id and turned down
C11_Witness ==
    /\ call.op = "register_workflow"
    /\ call.ret = FALSE
    /\ call.args.workflow_id \in DOMAIN workflows
    /\ call.args.workflow_steps # <<>>
    /\ \A k \in 1..Len(call.args.workflow_steps) :
           ~Offending(call.args.workflow_steps[k], registered_agents)
    /\ workflows[call.args.workflow_id].steps # call.args.workflow_steps
    /\ registered[call.args.workflow_id] # call.args.workflow_steps

\* C12 as claimed: the steps stored under every registered id are exactly
\* the steps that were registered, whatever operations followed.
C12_RegisteredWorkflowImmutable ==
    \A workflow_id \in DOMAIN workflows :
        workflows[workflow_id].steps = registered[workflow_id]

\* the request a step of a workflow gives rise to in an execution that
\* depends on the registered steps and on its own context only
OwnRequest(workflow_id, k, context) ==
    LET step == RegisteredStep(workflow_id, k)
        params == RegisteredParams(workflow_id, k)
        resolved == [p \in DOMAIN params |->
                        IF ~TemplateLiteral(params[p]) THEN params[p]
                        ELSE IF TemplatePath(params[p]) \in DOMAIN context
                        THEN context[TemplatePath(params[p])]
                        ELSE LET x == Lookup(D(context),
                                             Split(TemplatePath(params[p]), "."))
                             IN  IF x # <<>> THEN x[1] ELSE params[p]]
    IN  (T("action") :> step.v[T("action")]) @@ resolved

\* C13 as claimed: every request an execution dispatches is the one its
\* registered step gives with the templates resolved against the context
\* of that execution, so nothing of an earlier execution shows in it.
C13_ExecutionsIndependent ==
    Executing =>
        \A n \in 1..Len(run.dispatched) :
            run.dispatched[n].request
                = OwnRequest(run.workflow_id, run.dispatched[n].step + 1,
                             run.dispatched[n].context)

\* C14: unregister_agent(name) returns False and leaves the registry
\* unchanged when name is not registered; otherwise it returns True and
\* removes exactly that name, every other name keeping its agent.
C14_UnregisterRemovesOne ==
    [][call'.op = "unregister_agent" =>
          LET name == call'.args.name
          IN  IF name \notin DOMAIN registered_agents
              THEN call'.ret = FALSE /\ registered_agents' = registered_agents
              ELSE /\ call'.ret = TRUE
                   /\ DOMAIN registered_agents' = DOMAIN registered_agents \ {name}
                   /\ \A other \in DOMAIN registered_agents' :
                          registered_agents'[other] = registered_agents[other]]_vars

\* C14 witness: one of two registered names removed, the other still there
\* with its agent
C14_Witness ==
    /\ call.op = "unregister_agent"
    /\ call.ret = TRUE
    /\ call.args.name \notin DOMAIN registered_agents
    /\ \E other \in DOMAIN registered_agents : registered_agents[other] = "obj2"

\* the step the loop of the execution under way is about to process
CurrentStep == RegisteredStep(run.workflow_id, run.i + 1)

\* the step processed is the last one of its workflow
LastStep == run.i + 1 = Len(registered[run.workflow_id])

\* the iteration taken appended one record, for the step reached, and kept
\* the earlier records
RecordAppended ==
    /\ Len(run'.results) = Len(run.results) + 1
    /\ SubSeq(run'.results, 1, Len(run.results)) = run.results
    /\ run'.results[Len(run'.results)].step = run.i
    /\ run'.results[Len(run'.results)].agent = CurrentStep.v[T("agent")]
    /\ run'.results[Len(run'.results)].action = CurrentStep.v[T("action")]

NewRecord == run'.results[Len(run'.results)]

\* the run stops after the step processed, without an internal error
StopsHere == pc' = "return" /\ run'.i = run.i /\ ~run'.error

\* the run goes on to the next step, or returns normally after the last
GoesOn ==
    /\ ~run'.error
    /\ run'.i = run.i + 1
    /\ pc' = IF LastStep THEN "return" ELSE "loop"

\* the run is ended by an internal error, the records standing
EndsInError == pc' = "return" /\ run'.error

\* the condition of the step processed raises on the record's result
ConditionRaises ==
    /\ T("condition") \in DOMAIN CurrentStep.v
    /\ EvaluateCondition(CurrentStep.v[T("condition")], D(run'.context),
                         NewRecord.result).raised

\* the step reached names an agent that is not in the registry
AgentMissing == pc = "loop" /\ CurrentStep.v[T("agent")].v \notin DOMAIN registered_agents

\* the record of a step whose agent is missing
NotFoundRecord ==
    /\ RecordAppended
    /\ NewRecord.success = B(FALSE)
    /\ Lookup(NewRecord.result, <<T("success")>>) = <<B(FALSE)>>
    /\ Lookup(NewRecord.result, <<T("error")>>)
          = <<S(<<"Agent not found: ">> \o CurrentStep.v[T("agent")].v)>>
    /\ run'.dispatched = run.dispatched

\* C15 as claimed: when the agent of the step reached is not in the
\* registry, a record with success false and an "Agent not found" error is
\* appended, no agent is called, and the run stops if on_failure is
\* "terminate" or absent and goes on to the next step if it is "continue".
C15_MissingAgentIsARecord ==
    [][AgentMissing =>
          /\ NotFoundRecord
          /\ IF TerminatesOnFailure(CurrentStep) THEN pc' = "return" ELSE GoesOn]_vars

\* C15 as amended: the same, unless the step's condition raises on the
\* "Agent not found" result; then the run ends in an internal error with
\* the record kept, whatever on_failure says.
C15_MissingAgentUnlessConditionRaises ==
    [][AgentMissing =>
          /\ NotFoundRecord
          /\ IF ConditionRaises THEN EndsInError
             ELSE IF TerminatesOnFailure(CurrentStep) THEN StopsHere ELSE GoesOn]_vars

\* C15 witness: a workflow registered while its agents were there, the
\* agent of step 0 unregistered since, step 0 recorded as not found and
\* step 1 run all the same
C15_Witness ==
    /\ ExecutionReturned
    /\ Len(outcome.results) = 2
    /\ outcome.results[1].agent.v \notin DOMAIN registered_agents
    /\ Lookup(outcome.results[1].result, <<T("error")>>)
          = <<S(<<"Agent not found: ", "a1">>)>>
    /\ outcome.results[2].agent.v \in DOMAIN registered_agents
    /\ outcome.results[2].success = B(TRUE)

\* the agent of the step reached was called and its process raised
AgentRaised ==
    /\ pc = "loop"
    /\ Len(run'.dispatched) = Len(run.dispatched) + 1
    /\ run'.dispatched[Len(run'.dispatched)].response.raised

\* the record of a step whose agent raised
AgentErrorRecord ==
    /\ RecordAppended
    /\ NewRecord.success = B(FALSE)
    /\ Lookup(NewRecord.result, <<T("success")>>) = <<B(FALSE)>>
    /\ Lookup(NewRecord.result, <<T("error")>>) # <<>>
    /\ Lookup(NewRecord.result, <<T("error")>>)[1].t = "str"
    /\ Mentions(Lookup(NewRecord.result, <<T("error")>>)[1].v, "Error executing agent ")

\* C16 as claimed: when the agent's process raises while a step is
\* dispatched, the step is recorded with success false and an error
\* description, the earlier records are kept, and the run stops or goes on
\* according to the step's on_failure.
C16_AgentExceptionIsARecord ==
    [][AgentRaised =>
          /\ AgentErrorRecord
          /\ IF TerminatesOnFailure(CurrentStep) THEN pc' = "return" ELSE GoesOn]_vars

\* C16 as amended: the same, unless the step's condition raises on the
\* error result; then the run ends in an internal error with the record
\* kept, whatever on_failure says.
C16_AgentExceptionUnlessConditionRaises ==
    [][AgentRaised =>
          /\ AgentErrorRecord
          /\ IF ConditionRaises THEN EndsInError
             ELSE IF TerminatesOnFailure(CurrentStep) THEN StopsHere ELSE GoesOn]_vars

\* C16 witness: the agent raised at step 1 after step 0 had succeeded, and
\* both records are in the outcome
C16_Witness ==
    /\ ExecutionReturned
    /\ "error" \notin outcome.keys
    /\ Len(outcome.results) = 2
    /\ outcome.results[1].success = B(TRUE)
    /\ outcome.results[2].success = B(FALSE)
    /\ Lookup(outcome.results[2].result, <<T("error")>>)
          = <<S(<<"Error executing agent ", "a2", ": ", "<exception>">>)>>

\* the output_key of a step: <<key>>, or <<>> when it has none
OutputKey(step) ==
    IF T("output_key") \in DOMAIN step.v THEN <<step.v[T("output_key")].v>> ELSE <<>>

\* the iteration taken recorded a result that reports success true
RecordedSuccess == RecordAppended /\ NewRecord.success = B(TRUE)

\* C17: the context is written under a step's output_key only when the
\* step's result reports success true: an iteration whose step fails (agent
\* missing, agent error, success false or absent) or ends before its record
\* leaves the whole context as it was, and a successful one changes no key
\* other than its output_key.
C17_FailedStepsLeaveContext ==
    [][pc = "loop" =>
          /\ ~RecordedSuccess => run'.context = run.context
          /\ RecordedSuccess =>
                /\ OutputKey(CurrentStep) = <<>> => run'.context = run.context
                /\ DOMAIN run'.context
                      = DOMAIN run.context
                        \cup {OutputKey(CurrentStep)[n] : n \in 1..Len(OutputKey(CurrentStep))}
                /\ \A key \in DOMAIN run.context :
                       <<key>> # OutputKey(CurrentStep)
                       => run'.context[key] = run.context[key]]_vars

\* C17 witness: step 1 stored its data under "issue", step 2 has the same
\* output_key and its agent raised, and the context still holds step 1's
\* data
C17_Witness ==
    /\ ExecutionReturned
    /\ "error" \notin outcome.keys
    /\ Len(outcome.results) = 3
    /\ OutputKey(RegisteredStep(outcome.workflow_id, 2)) = <<T("issue")>>
    /\ OutputKey(RegisteredStep(outcome.workflow_id, 3)) = <<T("issue")>>
    /\ outcome.results[2].success = B(TRUE)
    /\ outcome.results[3].success = B(FALSE)
    /\ Lookup(outcome.results[3].result, <<T("error")>>) # <<>>
    /\ Mentions(Lookup(outcome.results[3].result, <<T("error")>>)[1].v,
                "Error executing agent ")
    /\ T("issue") \in DOMAIN outcome.context
    /\ <<outcome.context[T("issue")]>>
          = Lookup(outcome.results[2].result, <<T("data")>>)
    /\ outcome.context[T("issue")] # D(EmptyMap)

\* C18 as claimed: after a successful step with an output_key, the context
\* holds under output_key the data payload of the result when the result
\* has a data field, and the whole result when it has none.
C18_StoresDataOrWholeResult ==
    [][(pc = "loop" /\ RecordedSuccess /\ OutputKey(CurrentStep) # <<>>) =>
          run'.context[OutputKey(CurrentStep)[1]]
              = IF Lookup(NewRecord.result, <<T("data")>>) # <<>>
                THEN Lookup(NewRecord.result, <<T("data")>>)[1]
                ELSE NewRecord.result]_vars

\* the records stop at the first failed step that terminates
StopsAtFailure(workflow_id, results) ==
    \A k \in 1..Len(results) :
        (results[k].success = B(FALSE)
         /\ TerminatesOnFailure(RegisteredStep(workflow_id, k)))
        => Len(results) = k

\* C19: if step i's result reports success false and its on_failure is
\* "terminate" or absent, no later step is dispatched or recorded, whether
\* or not step i has a condition and whatever the condition evaluates to.
C19_FailureTerminates ==
    /\ Executing =>
          /\ StopsAtFailure(run.workflow_id, run.results)
          /\ \A k \in 1..Len(run.results) :
                (run.results[k].success = B(FALSE)
                 /\ TerminatesOnFailure(RegisteredStep(run.workflow_id, k)))
                => /\ pc = "return"
                   /\ \A n \in 1..Len(run.dispatched) : run.dispatched[n].step < k
    /\ ExecutionReturned => StopsAtFailure(outcome.workflow_id, outcome.results)

\* C19 witness: a failed first step of two whose condition evaluates true
C19_Witness ==
    /\ ExecutionReturned
    /\ "error" \notin outcome.keys
    /\ Len(registered[outcome.workflow_id]) = 2
    /\ TerminatesOnFailure(RegisteredStep(outcome.workflow_id, 1))
    /\ T("condition") \in DOMAIN RegisteredStep(outcome.workflow_id, 1).v
    /\ Len(outcome.results) = 1
    /\ outcome.results[1].success = B(FALSE)
    /\ EvaluateCondition(RegisteredStep(outcome.workflow_id, 1).v[T("condition")],
                         D(outcome.context), outcome.results[1].result)
          = Returned(B(TRUE))

\* every step of the workflow has on_failure "continue"
AllContinue(workflow_id) ==
    \A k \in 1..Len(registered[workflow_id]) :
        Lookup(RegisteredStep(workflow_id, k), <<T("on_failure")>>) = <<Str("continue")>>

ResponseNotAMap ==
    /\ Len(run'.dispatched) = Len(run.dispatched) + 1
    /\ ~run'.dispatched[Len(run'.dispatched)].response.raised
    /\ run'.dispatched[Len(run'.dispatched)].response.value.t # "dict"

\* an internal error occurs in the iteration taken
InternalError ==
    /\ pc = "loop"
    /\ \/ ResponseNotAMap
       \/ RecordAppended /\ ConditionRaises

\* C21: when an internal error occurs while step i is processed (the agent
\* answers with a value that is not a map, or the step's condition raises),
\* the run ends there with the records appended so far, and execute_workflow
\* returns, without raising, success false with an error message, the
\* execution id, the workflow id and those records.
C21_InternalErrorIsAnOutcome ==
    [][/\ InternalError =>
             /\ pc' = "return" /\ run'.error
             /\ Len(run'.results) >= Len(run.results)
             /\ SubSeq(run'.results, 1, Len(run.results)) = run.results
       /\ (pc = "return" /\ run.error) =>
             /\ pc' = "idle"
             /\ ~outcome'.raised
             /\ outcome'.keys
                   = {"success", "error", "execution_id", "workflow_id", "results"}
             /\ outcome'.success = FALSE
             /\ Mentions(outcome'.error, "Error executing workflow ")
             /\ outcome'.workflow_id = run.workflow_id
             /\ outcome'.results = run.results]_vars

\* C21 witness: two records appended, then an error at the third step
C21_Witness ==
    /\ ExecutionReturned
    /\ "error" \in outcome.keys
    /\ Len(registered[outcome.workflow_id]) = 3
    /\ Len(outcome.results) = 2
    /\ outcome.results[1].step = 0
    /\ outcome.results[2].step = 1

\* a parsed value is a list of steps that each have agent and action and
\* name an agent of agents
IsStepList(value, agents) ==
    /\ value.t = "list"
    /\ \A k \in 1..Len(value.v) :
           /\ value.v[k].t = "dict"
           /\ ~Offending(value.v[k], agents)

\* the JSON array found between positions i and j of the text: <<steps>>
\* when the tokens from i to j are an array of valid steps, <<>> otherwise
StepArrayAt(text, i, j, agents) ==
    IF i <= j /\ text[i] = "[" /\ text[j] = "]"
       /\ ~JsonLoads(SubSeq(text, i, j)).raised
       /\ IsStepList(JsonLoads(SubSeq(text, i, j)).value, agents)
    THEN <<JsonLoads(SubSeq(text, i, j)).value.v>>
    ELSE <<>>

\* the text contains, somewhere, a JSON array of valid steps
ContainsStepArray(text, agents) ==
    \E i, j \in 1..Len(text) : StepArrayAt(text, i, j, agents) # <<>>

FirstOf(text, tok) == CHOOSE i \in 1..Len(text) :
                          text[i] = tok /\ \A m \in 1..(i - 1) : text[m] # tok
LastOf(text, tok) == CHOOSE j \in 1..Len(text) :
                         text[j] = tok /\ \A m \in (j + 1)..Len(text) : text[m] # tok

\* the array of valid steps that reaches from the first '[' of the text to
\* its last ']': <<steps>>, or <<>> when there is none
OuterStepArray(text, agents) ==
    IF (\E i \in 1..Len(text) : text[i] = "[") /\ (\E j \in 1..Len(text) : text[j] = "]")
    THEN StepArrayAt(text, FirstOf(text, "["), LastOf(text, "]"), agents)
    ELSE <<>>

\* the text of the plan_workflow call being made
PlanText == GeneratedText(call'.args.llm)[1].v

\* the id the plan_workflow call being made generates
PlanId == <<"generated-", call'.args.uuid>>

\* plan_workflow succeeded with steps: it returns success true with the
\* new id, the steps and the query, and the registry has gained exactly
\* the entry id -> steps, the others being as they were
PlanRegistered(steps) ==
    /\ ~outcome'.raised
    /\ outcome'.keys = {"success", "data"}
    /\ outcome'.success = TRUE
    /\ outcome'.workflow_id = PlanId
    /\ outcome'.steps = steps
    /\ outcome'.query = call'.args.query
    /\ PlanId \notin DOMAIN workflows
    /\ DOMAIN workflows' = DOMAIN workflows \cup {PlanId}
    /\ workflows'[PlanId].steps = steps
    /\ \A workflow_id \in DOMAIN workflows :
           workflows'[workflow_id] = workflows[workflow_id]

\* C22 as claimed: when the backend's text contains a JSON array of steps
\* that each have agent and action and name registered agents (and the id
\* generated is a fresh one), plan_workflow returns success true with
\* {workflow_id, steps, query} and the registry gains exactly one entry,
\* under the new id, whose steps are the parsed steps.
C22_PlanRegistersParsedSteps ==
    [][(/\ call'.op = "plan_workflow"
        /\ GeneratedText(call'.args.llm) # <<>>
        /\ PlanId \notin DOMAIN workflows
        /\ ContainsStepArray(PlanText, registered_agents))
       => \E i, j \in 1..Len(PlanText) :
              /\ StepArrayAt(PlanText, i, j, registered_agents) # <<>>
              /\ PlanRegistered(StepArrayAt(PlanText, i, j, registered_agents)[1])]_vars

\* C22 as amended: the same when the array of valid steps is what lies
\* between the first '[' and the last ']' of the text and the id generated
\* is not registered yet.
C22_PlanRegistersOuterArray ==
    [][(/\ call'.op = "plan_workflow"
        /\ GeneratedText(call'.args.llm) # <<>>
        /\ PlanId \notin DOMAIN workflows
        /\ OuterStepArray(PlanText, registered_agents) # <<>>)
       => PlanRegistered(OuterStepArray(PlanText, registered_agents)[1])]_vars

\* C22 witness: an array with one step, prose on both sides of it, planned
\* while another generated workflow and a caller's workflow are registered
C22_Witness ==
    /\ call.op = "plan_workflow"
    /\ call.ret = TRUE
    /\ GeneratedText(call.args.llm)
          = <<S(<<"prose", "[", "{", "<a1 step>", "}", "]", "prose">>)>>
    /\ outcome.success = TRUE
    /\ Len(outcome.steps) = 1
    /\ workflows[outcome.workflow_id].steps = outcome.steps
    /\ Cardinality(DOMAIN workflows) = 3

\* C23: plan_workflow executes nothing: a plan_workflow call, successful or
\* not, starts no run (no context, no trace, no agent called) and leaves the
\* engine idle; an agent is called and a record appended only in a run that
\* an execute_workflow call started for the id it was given.
C23_PlanningNeverExecutes ==
    [][/\ call'.op = "plan_workflow" =>
             /\ pc = "idle" /\ pc' = "idle"
             /\ run = NoRun /\ run' = NoRun
             /\ registered_agents' = registered_agents
       /\ (run'.dispatched # run.dispatched \/ run'.results # run.results) =>
             \/ /\ pc = "loop"
                /\ call.op = "execute_workflow" /\ call' = call
                /\ run.workflow_id = call.args.workflow_id
             \/ run' = NoRun]_vars

\* C23 witness: a plan of one step registered, its agent there, nothing run
C23_Witness ==
    /\ call.op = "plan_workflow"
    /\ call.ret = TRUE
    /\ Len(outcome.steps) = 1
    /\ outcome.steps[1].v[T("agent")].v \in DOMAIN registered_agents
    /\ workflows[outcome.workflow_id].steps = outcome.steps
    /\ pc = "idle"
    /\ run = NoRun

\* the ways planning fails that the claim names, for the call being made
BackendRaised == call'.args.llm.raised

BackendReportsFailure ==
    /\ ~call'.args.llm.raised
    /\ Lookup(call'.args.llm.value, <<T("success")>>) = <<B(FALSE)>>

BackendGivesNoContent ==
    /\ ~call'.args.llm.raised
    /\ Lookup(call'.args.llm.value, <<T("success")>>) = <<B(TRUE)>>
    /\ Lookup(call'.args.llm.value, <<T("data"), T("message"), T("content")>>) = <<>>

TextCannotBeParsed ==
    /\ GeneratedText(call'.args.llm) # <<>>
    /\ ExtractJsonFromText(PlanText).raised

\* plan_workflow returned {success: false, error} and registered nothing
StructuredFailure ==
    /\ ~outcome'.raised
    /\ outcome'.keys = {"success", "error"}
    /\ outcome'.success = FALSE
    /\ outcome'.error # <<>>
    /\ workflows' = workflows

\* C24 as claimed: for every planning failure (the backend reporting
\* failure, the backend call raising, the backend reporting success without
\* a message content, a text that cannot be parsed) plan_workflow returns a
\* structured {success: false, error}, does not raise, and registers no
\* workflow.
C24_PlanFailuresAreStructured ==
    [][(/\ call'.op = "plan_workflow"
        /\ \/ BackendRaised
           \/ BackendReportsFailure
           \/ BackendGivesNoContent
           \/ TextCannotBeParsed)
       => StructuredFailure]_vars

\* a parsed step that register_workflow's validation turns down: without
\* agent or action, or naming an agent that is not in agents
BadStep(step, agents) == step.t = "dict" /\ Offending(step, agents)

\* C25: if the plan parsed by plan_workflow contains a step that lacks
\* agent or action or names an agent that is not registered, plan_workflow
\* returns success false and registers no workflow; so the steps of every
\* workflow the planner registers pass the validation of register_workflow.
C25_PlannedStepsAreValidated ==
    [][call'.op = "plan_workflow" =>
          /\ (/\ GeneratedText(call'.args.llm) # <<>>
              /\ \E plan \in {ExtractJsonFromText(PlanText)} :
                     /\ ~plan.raised
                     /\ \E k \in 1..Len(plan.value.v) :
                            BadStep(plan.value.v[k], registered_agents))
             => /\ ~outcome'.raised
                /\ outcome'.success = FALSE
                /\ "error" \in outcome'.keys
                /\ workflows' = workflows
          /\ workflows' # workflows
             => /\ DOMAIN workflows' = DOMAIN workflows \cup {PlanId}
                /\ \A k \in 1..Len(workflows'[PlanId].steps) :
                       /\ workflows'[PlanId].steps[k].t = "dict"
                       /\ ~Offending(workflows'[PlanId].steps[k], registered_agents)]_vars

\* C25 witness: a plan of two steps, the first valid, the second naming an
\* agent that is not registered, turned down with the registry as it was
C25_Witness ==
    /\ call.op = "plan_workflow"
    /\ call.ret = FALSE
    /\ GeneratedText(call.args.llm)
          = <<S(<<"[", "{", "<a1 step>", "}", ",", "{", "<ghost step>", "}", "]">>)>>
    /\ T("a1") \in DOMAIN registered_agents
    /\ outcome.error = <<"Failed to register generated workflow">>
    /\ <<"generated-", call.args.uuid>> \notin DOMAIN workflows

KnownOperators == {Str("eq"), Str("ne"), Str("gt"), Str("lt"), Str("contains"),
                   Str("exists")}

\* the condition evaluated has a type, an operator or a function that the
\* evaluator does not know
UnknownKind ==
    \/ CondFieldOf("type") \notin {<<>>, <<Str("simple")>>, <<Str("custom")>>}
    \/ /\ CondFieldOf("type") \in {<<>>, <<Str("simple")>>}
       /\ CondFieldOf("operator") # <<>>
       /\ CondFieldOf("operator")[1] \notin KnownOperators
    \/ /\ CondFieldOf("type") = <<Str("custom")>>
       /\ CondFieldOf("function") \notin {<<Str("all_success")>>, <<Str("has_data")>>}

\* C26: a condition of a type other than simple and custom, a simple
\* condition with an operator other than eq, ne, gt, lt, contains, exists,
\* and a custom condition with a function other than all_success and
\* has_data evaluate to false and do not raise, for every context and step
\* result.
C26_UnknownKindsAreFalse ==
    (Evaluated /\ UnknownKind) => call.ret = Returned(B(FALSE))

\* C26 witness: an unknown operator on a path whose value equals the
\* expected one
C26_Witness ==
    /\ Evaluated
    /\ CondFieldOf("type") = <<Str("simple")>>
    /\ CondFieldOf("operator") = <<Str("ge")>>
    /\ CondFieldOf("expected") = <<I(10)>>
    /\ CondFieldOf("value") = <<S(<<"result", ".", "data", ".", "count">>)>>
    /\ Lookup(call.args.step_result, <<T("data"), T("count")>>) = <<I(10)>>
    /\ call.ret = Returned(B(FALSE))

\* the truth value of what a condition evaluated to
Holds(x) ==
    CASE x.t = "bool" -> x.v
      [] x.t = "null" -> FALSE
      [] x.t = "int" -> x.v # 0
      [] x.t = "str" -> x.v # <<>>
      [] x.t = "list" -> x.v # <<>>
      [] x.t = "dict" -> DOMAIN x.v # {}

\* the step result has a data field whose payload is not empty
HasNonEmptyData(step_result) ==
    /\ Lookup(step_result, <<T("data")>>) # <<>>
    /\ Lookup(step_result, <<T("data")>>)[1]
          \notin {None, D(EmptyMap), L(<<>>), S(<<>>)}

C28_ExecutionKeepsAgents ==
    [][(call'.op = "execute_workflow" /\ (pc # "idle" \/ call' # call))
       => /\ DOMAIN registered_agents' = DOMAIN registered_agents
          /\ \A name \in DOMAIN registered_agents :
                 registered_agents'[name] = registered_agents[name]]_vars

\* C28 witness: a run of two steps has returned, an agent raised in it, and
\* both agents are registered
C28_Witness ==
    /\ ExecutionReturned
    /\ Len(outcome.results) = 2
    /\ \E k \in 1..2 :
           /\ Lookup(outcome.results[k].result, <<T("error")>>) # <<>>
           /\ Mentions(Lookup(outcome.results[k].result, <<T("error")>>)[1].v,
                       "Error executing agent ")
    /\ DOMAIN registered_agents = AgentNames

\* the trace is well formed for its workflow: record i (from 0) is the i-th
\* of the list, has index i and carries step i's agent and action, and
\* there are no more records than steps
TraceInOrder(workflow_id, results) ==
    /\ Len(results) <= Len(registered[workflow_id])
    /\ \A k \in 1..Len(results) :
           /\ results[k].step = k - 1
           /\ results[k].agent = RegisteredStep(workflow_id, k).v[T("agent")]
           /\ results[k].action = RegisteredStep(workflow_id, k).v[T("action")]

\* the agents were called in step order, each after the records of all the
\* steps before it had been appended
DispatchedInOrder ==
    /\ \A n \in 1..Len(run.dispatched) : run.dispatched[n].step <= Len(run.results)
    /\ \A m, n \in 1..Len(run.dispatched) :
           m < n => run.dispatched[m].step < run.dispatched[n].step

\* C29: at every point of an execution the trace holds the records of
\* steps 0..k-1 in that order, k not above the number of steps, each with
\* its step's agent and action; a record appended is never changed or
\* removed, up to and including the outcome returned; and the agent of a
\* step is called only when the records of all earlier steps are there.
C29_TraceGrowsInStepOrder ==
    /\ [](Executing => /\ TraceInOrder(run.workflow_id, run.results)
                       /\ DispatchedInOrder)
    /\ [](ExecutionReturned => TraceInOrder(outcome.workflow_id, outcome.results))
    /\ [][/\ pc = "loop" =>
                /\ Len(run'.results) \in {Len(run.results), Len(run.results) + 1}
                /\ SubSeq(run'.results, 1, Len(run.results)) = run.results
                /\ Len(run'.dispatched) > Len(run.dispatched)
                   => /\ run'.dispatched[Len(run'.dispatched)].step = run.i
                      /\ Len(run.results) = run.i
          /\ pc = "return" => outcome'.results = run.results]_vars

\* C29 witness: two of three steps recorded, their agents called, the third
\* step still to come
C29_Witness ==
    /\ pc = "loop"
    /\ Len(registered[run.workflow_id]) = 3
    /\ Len(run.results) = 2
    /\ Len(run.dispatched) = 2
    /\ run.results[1].success = B(FALSE)
    /\ run.i = 2

\* the request a step as it is stored gives when its templates are
\* resolved against context
RequestOf(step, context) ==
    LET params == IF T("parameters") \in DOMAIN step.v
                  THEN step.v[T("parameters")].v ELSE EmptyMap
        resolved == [p \in DOMAIN params |->
                        IF ~TemplateLiteral(params[p]) THEN params[p]
                        ELSE IF TemplatePath(params[p]) \in DOMAIN context
                        THEN context[TemplatePath(params[p])]
                        ELSE LET x == Lookup(D(context),
                                             Split(TemplatePath(params[p]), "."))
                             IN  IF x # <<>> THEN x[1] ELSE params[p]]
    IN  (T("action") :> step.v[T("action")]) @@ resolved

\* C30: within one step the record comes first, then the context update,
\* then the condition: the condition is evaluated against the context as
\* the step has just updated it (so a condition on context.<output_key>
\* sees the value just stored), with the record already appended; and the
\* request is built from the context as it was before the step, so no
\* template of the step reads the step's own output.
C30_RecordThenContextThenCondition ==
    [][pc = "loop" =>
          /\ (RecordAppended /\ T("condition") \in DOMAIN CurrentStep.v) =>
                LET c == EvaluateCondition(CurrentStep.v[T("condition")],
                                           D(run'.context), NewRecord.result)
                IN  /\ c.raised => EndsInError
                    /\ (~c.raised /\ ~Holds(c.value) /\ TerminatesOnFailure(CurrentStep))
                          => StopsHere
                    /\ (~c.raised /\ Holds(c.value) /\ NewRecord.success = B(TRUE))
                          => GoesOn
          /\ (RecordedSuccess /\ OutputKey(CurrentStep) # <<>>) =>
                OutputKey(CurrentStep)[1] \in DOMAIN run'.context
          /\ Len(run'.dispatched) > Len(run.dispatched) =>
                /\ run'.dispatched[Len(run'.dispatched)].context = run.context
                /\ run'.dispatched[Len(run'.dispatched)].request
                      = RequestOf(workflows[run.workflow_id].steps[run.i + 1],
                                  run.context)]_vars

\* C30 witness: the caller's context has issue.key but no issue.count; the
\* step's template read the caller's key, not the key the step then stored,
\* and its condition on context.issue.count held on the value just stored,
\* so the next step ran
C30_Witness ==
    /\ pc = "return"
    /\ registered[run.workflow_id] = <<OwnIssueGate, Notify>>
    /\ call.args.context = (T("issue") :> D(T("key") :> Str("C0")))
    /\ Len(run.results) = 2
    /\ run.dispatched[1].request[T("issue_key")] = Str("C0")
    /\ Lookup(run.results[1].result, <<T("data"), T("key")>>) = <<Str("T1")>>
    /\ Lookup(D(run.context), <<T("issue"), T("count")>>) = <<I(6)>>

\* the records of the trace whose agent was found in the registry
FoundRecords(results) ==
    { k \in 1..Len(results) :
        Lookup(results[k].result, <<T("error")>>)
           # <<S(<<"Agent not found: ">> \o results[k].agent.v)>> }

\* no step index occurs twice in the trace, no step was dispatched twice
EachStepOnce ==
    /\ \A j, k \in 1..Len(run.results) :
           j # k => run.results[j].step # run.results[k].step
    /\ \A m, n \in 1..Len(run.dispatched) :
           m # n => run.dispatched[m].step # run.dispatched[n].step

\* the run was ended by an agent whose answer is not a map: the agent was
\* called and no record of the step was appended
EndedByAnswerNotAMap ==
    /\ run.error
    /\ run.dispatched # <<>>
    /\ run.dispatched[Len(run.dispatched)].step = Len(run.results)
    /\ ~run.dispatched[Len(run.dispatched)].response.raised
    /\ run.dispatched[Len(run.dispatched)].response.value.t # "dict"

\* C31 as claimed: in one execute_workflow call each step index occurs at
\* most once in results, each step's agent is called at most once, and the
\* number of agent calls equals the number of records whose agent was found
\* in the registry.
C31_NoRetries ==
    Executing =>
        /\ EachStepOnce
        /\ Len(run.dispatched) = Cardinality(FoundRecords(run.results))

\* C31 as the code has it: each step index occurs at most once in results
\* and each step's agent is called at most once, also past a failed step
\* with on_failure "continue"; the number of agent calls equals the number
\* of records whose agent was found, plus one when the run was ended by an
\* agent answering with a value that is not a map (a call with no record).
C31_NoRetriesOneCallPerRecordOrError ==
    Executing =>
        /\ EachStepOnce
        /\ Len(run.dispatched)
              = Cardinality(FoundRecords(run.results))
                + (IF EndedByAnswerNotAMap THEN 1 ELSE 0)

\* C31 witness: a run of three steps, the second failed with on_failure
\* "continue" and was passed: three records, three agent calls
C31_Witness ==
    /\ pc = "return" /\ ~run.error
    /\ Len(run.results) = 3
    /\ run.results[2].success = B(FALSE)
    /\ FoundRecords(run.results) = {1, 2, 3}
    /\ Len(run.dispatched) = 3
    /\ run.dispatched[2].step = 1

\* the number of steps of the workflow being executed
StepCount == Len(workflows[run.workflow_id].steps)

\* C32: every execute_workflow call on a workflow of n steps returns an
\* outcome, after at most n agent calls, when each agent call returns or
\* raises: each iteration either moves on to the next step index or ends
\* the loop, whatever the conditions, failures and on_failure values are,
\* so no step is visited twice.
C32_ExecutionTerminates ==
    /\ [](Executing => /\ run.i <= StepCount
                       /\ Len(run.dispatched) <= StepCount
                       /\ Len(run.results) <= StepCount)
    /\ [][pc = "loop" =>
             \/ pc' = "return"
             \/ pc' = "loop" /\ run'.i = run.i + 1 /\ run'.i < StepCount]_vars
    /\ [][pc = "return" => (pc' = "idle" /\ "results" \in outcome'.keys)]_vars
    /\ (Executing ~> (pc = "idle" /\ call.op = "execute_workflow"
                      /\ "results" \in outcome.keys))

\* C32 witness: a workflow of three steps with failures and false
\* conditions passed by on_failure "continue" has reached its end after
\* three agent calls
C32_Witness ==
    /\ pc = "return" /\ ~run.error
    /\ StepCount = 3 /\ run.i = 3
    /\ Len(run.dispatched) = 3
    /\ \A k \in 1..3 : run.results[k].success = B(FALSE)

\* a simple condition with operator contains whose path resolved to a value
ContainsCall ==
    /\ SimpleCall
    /\ CondField("operator") = Str("contains")
    /\ PathRoot \in {"result", "context"}
    /\ PathValue # <<>>

\* what contains is said to give for the resolved value a and expected
ContainsAsSpecified(a, expected) ==
    IF a.t = "str" /\ expected.t = "str" THEN IsSubstring(expected.v, a.v)
    ELSE IF a.t = "list" THEN \E i \in 1..Len(a.v) : SameValue(a.v[i], expected)
    ELSE IF a.t = "dict" THEN expected.t = "str" /\ expected.v \in DOMAIN a.v
    ELSE FALSE

\* C33 as claimed: with operator contains and resolved value a, the
\* condition evaluates to: expected is a substring of a, when both are
\* strings; expected is an element of a, when a is a list; expected is a
\* key of a, when a is a map; false for every other a.
C33_ContainsByKind ==
    ContainsCall =>
        call.ret = Returned(B(ContainsAsSpecified(PathValue[1], CondField("expected"))))

\* C33 for every expected value that can be a key: the same, when expected
\* is not itself a list or a map
C33_ContainsByKindHashable ==
    (ContainsCall /\ CondField("expected").t \notin {"list", "dict"}) =>
        call.ret = Returned(B(ContainsAsSpecified(PathValue[1], CondField("expected"))))

\* C33: a list asked for in a map makes the evaluation raise
C33_ListInMapRaises ==
    /\ ContainsCall
    /\ PathValue[1].t = "dict"
    /\ CondField("expected").t = "list"
    /\ call.ret.raised

\* the token occurs in the text
Occurs(text, tok) == \E i \in 1..Len(text) : text[i] = tok

\* the text from the first open to the last close (empty when the last
\* close comes before the first open)
Between(text, open, close) == SubSeq(text, FirstOf(text, open), LastOf(text, close))

\* plan_workflow fails on the extraction: a structured failure that names
\* it, nothing registered
ExtractionFailed ==
    /\ ~outcome'.raised
    /\ outcome'.keys = {"success", "error"}
    /\ outcome'.success = FALSE
    /\ Mentions(outcome'.error, "extract workflow plan")
    /\ workflows' = workflows

\* plan_workflow goes on with steps as the step list: when it succeeds,
\* steps is what it returns and registers, and it succeeds when steps are
\* valid steps and the id is new
PlannedWith(steps) ==
    /\ ~outcome'.raised
    /\ outcome'.success => PlanRegistered(steps.v)
    /\ ~outcome'.success => workflows' = workflows
    /\ (IsStepList(steps, registered_agents) /\ PlanId \notin DOMAIN workflows)
          => outcome'.success

\* C34: the extraction parses the text from the first '[' to the last ']'
\* as the step list; only when the text has no '[' or no ']' it parses the
\* text from the first '{' to the last '}' and takes the one object as a
\* list of one step; when the text chosen does not parse (or there is
\* neither pair), planning fails on the extraction, the other pair not
\* being tried.
C34_ExtractionTakesOuterPair ==
    [][(call'.op = "plan_workflow" /\ GeneratedText(call'.args.llm) # <<>>) =>
          \A text \in {PlanText} :
             IF Occurs(text, "[") /\ Occurs(text, "]")
             THEN \A array \in {JsonLoads(Between(text, "[", "]"))} :
                     IF array.raised THEN ExtractionFailed
                     ELSE PlannedWith(array.value)
             ELSE IF Occurs(text, "{") /\ Occurs(text, "}")
             THEN \A one \in {JsonLoads(Between(text, "{", "}"))} :
                     IF one.raised THEN ExtractionFailed
                     ELSE PlannedWith(L(<<one.value>>))
             ELSE ExtractionFailed]_vars

\* C34 witness: the text between '[' and ']' does not parse, a valid step
\* object follows it, and planning has failed on the extraction
C34_Witness ==
    /\ call.op = "plan_workflow"
    /\ call.ret = FALSE
    /\ GeneratedText(call.args.llm)
          = <<S(<<"[", "prose", "]", "{", "<a1 step>", "}">>)>>
    /\ T("a1") \in DOMAIN registered_agents
    /\ Mentions(outcome.error, "extract workflow plan")
    /\ \A id \in DOMAIN workflows : id[1] # "generated-"

\* the iteration taken called the agent of the step processed
Dispatches == pc = "loop" /\ Len(run'.dispatched) = Len(run.dispatched) + 1

\* the request of the call the iteration taken made
NewRequest == run'.dispatched[Len(run'.dispatched)].request

\* the parameters the step processed is stored with
StoredParams ==
    IF T("parameters") \in DOMAIN workflows[run.workflow_id].steps[run.i + 1].v
    THEN workflows[run.workflow_id].steps[run.i + 1].v[T("parameters")].v
    ELSE EmptyMap

\* C35: a template "${path}" whose whole path is a key of the context is
\* dispatched as the value under that key, also when the context has a
\* nested map that the dotted path leads into; the value at the end of the
\* nested walk is dispatched only when the whole path is no key of the
\* context and the path has a dot.
C35_DirectKeyBeforeWalk ==
    [][Dispatches =>
          \A p \in DOMAIN StoredParams :
             TemplateLiteral(StoredParams[p]) =>
                \A path \in {TemplatePath(StoredParams[p])} :
                   /\ path \in DOMAIN run.context => NewRequest[p] = run.context[path]
                   /\ (path \notin DOMAIN run.context /\ NewRequest[p] # StoredParams[p])
                         => /\ Occurs(path, ".")
                            /\ Lookup(D(run.context), Split(path, ".")) = <<NewRequest[p]>>
                   /\ (path \notin DOMAIN run.context /\ Occurs(path, ".")
                       /\ Lookup(D(run.context), Split(path, ".")) # <<>>)
                         => Lookup(D(run.context), Split(path, ".")) = <<NewRequest[p]>>]_vars

\* C35 witness: the context held the key "issue.key" and the map issue with
\* key "key", with different values, and "${issue.key}" was dispatched as
\* the value of the direct key
C35_Witness ==
    /\ Executing
    /\ run.dispatched # <<>>
    /\ \E n \in 1..Len(run.dispatched) :
          /\ <<"issue", ".", "key">> \in DOMAIN run.dispatched[n].context
          /\ run.dispatched[n].context[<<"issue", ".", "key">>] = Str("DIRECT")
          /\ Lookup(D(run.dispatched[n].context), <<T("issue"), T("key")>>) = <<Str("T1")>>
          /\ T("issue_key") \in DOMAIN run.dispatched[n].request
          /\ run.dispatched[n].request[T("issue_key")] = Str("DIRECT")

\* the run has been stopped, before the last step, by the last record's
\* step: a successful step whose condition is false and whose on_failure
\* is "terminate" or absent
StoppedByFalseCondition ==
    /\ pc = "return" /\ ~run.error
    /\ 0 < Len(run.results) /\ Len(run.results) < Len(registered[run.workflow_id])
    /\ run.results[Len(run.results)].success = B(TRUE)
    /\ TerminatesOnFailure(RegisteredStep(run.workflow_id, Len(run.results)))
    /\ ConditionFalse(RegisteredStep(run.workflow_id, Len(run.results)), run.context,
                      run.results[Len(run.results)].result)

\* the fields of the outcome of a run that went through all its steps
CompleteKeys == {"success", "execution_id", "workflow_id", "results", "context"}

\* C36: a run stopped early by a false condition on a successful step
\* returns success true when every record has success true (success false
\* when some record has not): the steps that were not run do not count.
\* The outcome has the fields of a complete run and no error; only its
\* results, shorter than the step list, show the early stop.
C36_EarlyStopKeepsSuccess ==
    [][StoppedByFalseCondition =>
          /\ pc' = "idle"
          /\ ~outcome'.raised
          /\ outcome'.success = AndOfSuccess(run.results)
          /\ call'.ret = outcome'.success
          /\ outcome'.keys = CompleteKeys
          /\ outcome'.results = run.results
          /\ Len(outcome'.results) < Len(registered[outcome'.workflow_id])]_vars

\* C36 witness: the first of two steps succeeded, its condition was false,
\* the second step was not run and the outcome returned has success true
C36_Witness ==
    /\ ExecutionReturned
    /\ outcome.keys = CompleteKeys
    /\ outcome.success = TRUE
    /\ call.ret = TRUE
    /\ Len(registered[outcome.workflow_id]) = 2
    /\ Len(outcome.results) = 1
    /\ outcome.results[1].success = B(TRUE)
    /\ ConditionFalse(RegisteredStep(outcome.workflow_id, 1), outcome.context,
                      outcome.results[1].result)

\* every step of the workflow entry names an agent of agents
NamesAgentsOf(entry, agents) ==
    \A k \in 1..Len(entry.steps) :
        /\ T("agent") \in DOMAIN entry.steps[k].v
        /\ entry.steps[k].v[T("agent")].v \in DOMAIN agents

\* every step of every registered workflow names a registered agent
AllStepsNameRegisteredAgents ==
    \A workflow_id \in DOMAIN workflows :
        NamesAgentsOf(workflows[workflow_id], registered_agents)

\* C37 as claimed: in every reachable state every step of every registered
\* workflow names an agent that is in the agent registry.
C37_StepsNameRegisteredAgents == AllStepsNameRegisteredAgents

\* C37 as the code has it: every step of a workflow names an agent that
\* was in the registry when the workflow was registered (by
\* register_workflow or by plan_workflow), and the agent of a step is never
\* changed afterwards; register_agent, plan_workflow and execute_workflow
\* keep all steps naming registered agents, and only a successful
\* unregister_agent, which removes the agent whatever workflows name it,
\* ends that.
C37_StepsNamedRegisteredAgentsAtRegistration ==
    [][/\ \A workflow_id \in DOMAIN workflows' \ DOMAIN workflows :
             NamesAgentsOf(workflows'[workflow_id], registered_agents)
       /\ \A workflow_id \in DOMAIN workflows :
             /\ workflow_id \in DOMAIN workflows'
             /\ Len(workflows'[workflow_id].steps) = Len(workflows[workflow_id].steps)
             /\ \A k \in 1..Len(workflows[workflow_id].steps) :
                    workflows'[workflow_id].steps[k].v[T("agent")]
                       = workflows[workflow_id].steps[k].v[T("agent")]
       /\ (AllStepsNameRegisteredAgents /\ ~AllStepsNameRegisteredAgents') =>
             /\ call'.op = "unregister_agent"
             /\ call'.ret = TRUE
             /\ call'.args.name \in DOMAIN registered_agents
             /\ call'.args.name \notin DOMAIN registered_agents']_vars

\* C37 witness: an agent has been unregistered and a workflow that was
\* registered while it was there still names it
C37_Witness ==
    /\ call.op = "unregister_agent"
    /\ call.ret = TRUE
    /\ \E workflow_id \in DOMAIN workflows :
          /\ workflows[workflow_id].steps # <<>>
          /\ \E k \in 1..Len(workflows[workflow_id].steps) :
                workflows[workflow_id].steps[k].v[T("agent")].v = call.args.name
          /\ ~NamesAgentsOf(workflows[workflow_id], registered_agents)

\* a simple condition has been evaluated whose value path is not given, is
\* empty, or starts with neither "result." nor "context."
UnrootedCall ==
    /\ Evaluated
    /\ CondFieldOf("type") \in {<<>>, <<Str("simple")>>}
    /\ \/ CondFieldOf("value") = <<>>
       \/ /\ CondFieldOf("value")[1].t = "str"
          /\ \/ Len(CondFieldOf("value")[1].v) < 2
             \/ CondFieldOf("value")[1].v[1] \notin {"result", "context"}
             \/ CondFieldOf("value")[1].v[2] # "."

\* C38 as claimed: a simple condition whose value path is rooted at neither
\* result. nor context. (an empty or absent path included) evaluates to
\* false, for every operator and every expected value.
C38_UnrootedPathIsFalse ==
    UnrootedCall => call.ret = Returned(B(FALSE))

\* C38: what such a condition evaluates to is the comparison of null with
\* the expected value: true for eq with expected null or absent and for ne
\* with any other expected value, an exception for gt and lt, false for
\* contains and exists
C38_UnrootedPathComparesNull ==
    UnrootedCall =>
        \A expected \in {IF CondFieldOf("expected") = <<>> THEN None
                         ELSE CondFieldOf("expected")[1]} :
           CASE CondFieldOf("operator") \in {<<>>, <<Str("eq")>>} ->
                   call.ret = Returned(B(expected = None))
             [] CondFieldOf("operator") = <<Str("ne")>> ->
                   call.ret = Returned(B(expected # None))
             [] CondFieldOf("operator") \in {<<Str("gt")>>, <<Str("lt")>>} ->
                   call.ret.raised
             [] OTHER -> call.ret = Returned(B(FALSE))

\* a response of an agent that is a map without a success field
NoSuccessField(response) ==
    /\ ~response.raised
    /\ response.value.t = "dict"
    /\ T("success") \notin DOMAIN response.value.v

\* the agent called in the iteration taken answered with such a map
AnswersWithoutSuccess ==
    /\ Dispatches
    /\ NoSuccessField(run'.dispatched[Len(run'.dispatched)].response)

\* C39: when the agent's response is a map without a success field, the
\* step's record has success false, the context is left as it was (nothing
\* is written under output_key), no later step runs when on_failure is
\* "terminate" or absent, and the outcome of the run has success false.
C39_NoSuccessFieldIsFailure ==
    /\ [][AnswersWithoutSuccess =>
             /\ RecordAppended
             /\ NewRecord.success = B(FALSE)
             /\ run'.context = run.context
             /\ TerminatesOnFailure(CurrentStep) => (pc' = "return" /\ run'.i = run.i)]_vars
    /\ [][(pc = "return"
           /\ \E n \in 1..Len(run.dispatched) : NoSuccessField(run.dispatched[n].response))
          => (outcome'.success = FALSE /\ call'.ret = FALSE)]_vars

\* C39 witness: the first of two steps has an output_key and no on_failure;
\* its agent answered with data and no success field; the run has ended with
\* one record, success false, and without the key in the context
C39_Witness ==
    /\ pc = "return" /\ ~run.error
    /\ Len(registered[run.workflow_id]) = 2
    /\ OutputKey(RegisteredStep(run.workflow_id, 1)) = <<T("issue")>>
    /\ TerminatesOnFailure(RegisteredStep(run.workflow_id, 1))
    /\ Len(run.results) = 1
    /\ Len(run.dispatched) = 1
    /\ NoSuccessField(run.dispatched[1].response)
    /\ T("data") \in DOMAIN run.results[1].result.v
    /\ run.results[1].success = B(FALSE)
    /\ T("issue") \notin DOMAIN run.context

\* the output_keys of the steps whose records report success true
WrittenKeys(workflow_id, results) ==
    { RegisteredStep(workflow_id, k).v[T("output_key")].v :
        k \in { j \in 1..Len(results) :
                  /\ results[j].success = B(TRUE)
                  /\ T("output_key") \in DOMAIN RegisteredStep(workflow_id, j).v } }

\* the context has every key of the caller's context, with the caller's
\* value, except input and the keys written by the steps recorded
CallerKeysKept(context, workflow_id, results) ==
    \A key \in DOMAIN call.args.context
               \ ({T("input")} \cup WrittenKeys(workflow_id, results)) :
        key \in DOMAIN context /\ context[key] = call.args.context[key]

\* the input the caller supplied is in the context under the key input
InputVisible(context) ==
    call.args.input_data # None =>
        (T("input") \in DOMAIN context /\ context[T("input")] = call.args.input_data)

\* the context of a run and the contexts its agents were called under keep
\* the caller's keys, under pre, and show the input
CallerContextSeen(pre) ==
    /\ Executing =>
          /\ CallerKeysKept(run.context, run.workflow_id, run.results)
          /\ pre => InputVisible(run.context)
          /\ \A n \in 1..Len(run.dispatched) :
                /\ CallerKeysKept(run.dispatched[n].context, run.workflow_id,
                                  SubSeq(run.results, 1, run.dispatched[n].step))
                /\ pre => InputVisible(run.dispatched[n].context)
    /\ (ExecutionReturned /\ "context" \in outcome.keys) =>
          /\ CallerKeysKept(outcome.context, outcome.workflow_id, outcome.results)
          /\ pre => InputVisible(outcome.context)

\* C40 as claimed: every key of the caller's context other than input and
\* the output_keys written by successful steps is, with its original value,
\* in the context every step is dispatched under (the first included) and
\* in the context of the outcome returned; and an input the caller supplied
\* is in the context under the key input from before the first dispatch.
C40_CallerContextAndInputSeen == CallerContextSeen(TRUE)

\* C40 for an input that is not empty: the same, the input being one that
\* Python takes as true
C40_CallerContextAndNonEmptyInputSeen ==
    CallerContextSeen(Truthy(call.args.input_data))

\* C40: an empty map supplied as input is not in the context
C40_EmptyInputDropped ==
    /\ Executing
    /\ call.args.input_data = D(EmptyMap)
    /\ T("input") \notin DOMAIN run.context
    /\ run.dispatched # <<>>

====
